---- MODULE Spec2Model ----
(***************************************************************************)
(* Model of the gateway abstraction layer of the Unified Payments API:     *)
(* BaseGatewayAdapter, StripeAdapter, PaystackAdapter and GatewayFactory.  *)
(*                                                                         *)
(* JavaScript values are tagged records ([t |-> "undefined"], numbers,     *)
(* strings, objects).  A JavaScript string is a sequence of atoms; the     *)
(* strings that undergo case conversion (currency codes, class names) are  *)
(* written one character per atom, and concatenation is \o.                *)
(***************************************************************************)
EXTENDS Integers, Sequences, FiniteSets, TLC

(***************************************************************************)
(* Bounds of the model.                                                    *)
(***************************************************************************)
MaxAmount == 2
MaxProviderAmount == 2
MaxInFlight == 2
MaxRequests == 12
MaxMinutes == 1
MaxLimit == 2
MaxKeyRequests == 4
MaxHalfSeconds == 5

(***************************************************************************)
(* JavaScript values.                                                      *)
(***************************************************************************)
Undefined == [t |-> "undefined"]
Null == [t |-> "null"]
Num(n) == [t |-> "number", v |-> n, d |-> 1]
Str(s) == [t |-> "string", v |-> s]

RECURSIVE GCD(_, _)
GCD(a, b) == IF b = 0 THEN a ELSE GCD(b, a % b)

Abs(n) == IF n < 0 THEN 0 - n ELSE n

\* a number n / d in lowest terms (d > 0)
Ratio(n, d) ==
  LET g == GCD(Abs(n), d)
  IN  [t |-> "number", v |-> n \div g, d |-> d \div g]

\* the amount passed on in major units
Times100_Unscaled(x) == x

\* x * 100 and x / 100 on numbers
Times100(x) == Ratio(x.v * 100, x.d)
Div100(x) == Ratio(x.v, x.d * 100)

\* ToBoolean(v)
Truthy(v) ==
  CASE v.t = "undefined" -> FALSE
    [] v.t = "null" -> FALSE
    [] v.t = "number" -> v.v # 0
    [] v.t = "string" -> v.v # <<>>
    [] OTHER -> TRUE

\* a || b
Or(a, b) == IF Truthy(a) THEN a ELSE b

\* reading a property of a value: a TypeError on undefined and null
IsNullish(v) == v.t \in {"undefined", "null"}

\* String(v) as a template literal interpolates it
StringOf(v) ==
  CASE v.t = "undefined" -> <<"undefined">>
    [] v.t = "null" -> <<"null">>
    [] v.t = "string" -> v.v
    [] OTHER -> <<"[object]">>

\* an Error object: new Error(message), with the code a provider may attach
Error(msg) == [t |-> "object", message |-> Str(msg), code |-> Undefined,
               details |-> Undefined]
ErrorWithCode(msg, code) == [t |-> "object", message |-> Str(msg),
                             code |-> Str(code), details |-> Undefined]
TypeError(what) == Error(<<"Cannot read properties of ", what>>)

(***************************************************************************)
(* String.prototype.toLowerCase / toUpperCase, character by character.     *)
(***************************************************************************)
Upper == <<"A", "B", "C", "D", "E", "F", "G", "H", "I", "J", "K", "L", "M",
           "N", "O", "P", "Q", "R", "S", "T", "U", "V", "W", "X", "Y", "Z">>
Lower == <<"a", "b", "c", "d", "e", "f", "g", "h", "i", "j", "k", "l", "m",
           "n", "o", "p", "q", "r", "s", "t", "u", "v", "w", "x", "y", "z">>

LowerChar(c) ==
  IF \E i \in 1..26 : Upper[i] = c
  THEN Lower[CHOOSE i \in 1..26 : Upper[i] = c]
  ELSE c

UpperChar(c) ==
  IF \E i \in 1..26 : Lower[i] = c
  THEN Upper[CHOOSE i \in 1..26 : Lower[i] = c]
  ELSE c

toLowerCase(s) == [i \in 1..Len(s) |-> LowerChar(s[i])]
toUpperCase(s) == [i \in 1..Len(s) |-> UpperChar(s[i])]

\* Array.prototype.join(", ") on an array of strings
RECURSIVE Join(_)
Join(arr) ==
  IF Len(arr) = 0 THEN <<>>
  ELSE IF Len(arr) = 1 THEN arr[1]
  ELSE arr[1] \o <<", ">> \o Join(Tail(arr))

\* Number.prototype.toString(36)
Digits36 == <<"0", "1", "2", "3", "4", "5", "6", "7", "8", "9">> \o Lower

RECURSIVE Base36(_)
Base36(n) ==
  IF n < 36 THEN <<Digits36[n + 1]>>
  ELSE Base36(n \div 36) \o <<Digits36[(n % 36) + 1]>>

(***************************************************************************)
(* State.                                                                  *)
(***************************************************************************)
VARIABLES
  env,       \* process.env: the variables the factory and adapters read
  adapters,  \* GatewayFactory.adapters: registered name -> adapter object
  pc,        \* "idle", "awaiting" (the provider call is pending) or "done"
  call,      \* the adapter invocation in progress: gateway, method, argument
  sent,      \* the provider calls this invocation has made, in order
  crypto,    \* signature computations this invocation has made
  reply,     \* how the awaited provider call settled
  ret,       \* how the invocation completed: a returned value or a throw
  inflight,  \* concurrent adapter invocations: each one's own call, request,
             \* awaited response and result
  clock,     \* Date.now() of the server process, in ms since it started
  store,     \* the rate limiters' stores: limiter -> client IP -> hits, resetTime
  received,  \* the requests of the current minute: client IP -> path -> count
  response,  \* what the server did with the last request
  keyLimiter,  \* the closure of rateLimitByApiKey: maxRequests, windowMs and
               \* the requests Map (key -> count, resetTime)
  history,   \* the requests rateLimitByApiKey has answered, in order: key,
             \* time, passed on or not
  http       \* the request a route handler is answering, the adapter calls
             \* it made and the response it sent

server == <<clock, store, received, response, keyLimiter, history, http>>

vars == <<env, adapters, pc, call, sent, crypto, reply, ret, inflight, server>>

Returned(v) == [kind |-> "returned", value |-> v]
Threw(e) == [kind |-> "threw", value |-> e]
NoCall == [gateway |-> <<>>, method |-> "none", arg |-> Undefined]
NoRet == [kind |-> "none"]
NoReply == [kind |-> "none", settled |-> "none"]

Times == {37}
Rands == {"k3x9q", "0a1b2"}

(***************************************************************************)
(* BaseGatewayAdapter.                                                     *)
(***************************************************************************)
\* the class names, as this.constructor.name reads them
StripeAdapterName == <<"S", "t", "r", "i", "p", "e",
                       "A", "d", "a", "p", "t", "e", "r">>
PaystackAdapterName == <<"P", "a", "y", "s", "t", "a", "c", "k",
                         "A", "d", "a", "p", "t", "e", "r">>

BaseGatewayAdapter(className, config) ==
  [config |-> config, gatewayName |-> className]

\* validatePaymentData without the check of the amount's sign
validatePaymentData_NoSignCheck(paymentData) ==
  LET required == <<"amount", "currency">>
      missing == SelectSeq(required, LAMBDA field : ~Truthy(paymentData[field]))
  IN  IF Len(missing) > 0
      THEN [isValid |-> FALSE,
            errors |-> [i \in 1..Len(missing) |-> <<missing[i], " is required">>]]
      ELSE [isValid |-> TRUE, errors |-> <<>>]

validatePaymentData(paymentData) ==
  LET required == <<"amount", "currency">>
      missing == SelectSeq(required, LAMBDA field : ~Truthy(paymentData[field]))
  IN  IF Len(missing) > 0
      THEN [isValid |-> FALSE,
            errors |-> [i \in 1..Len(missing) |-> <<missing[i], " is required">>]]
      ELSE IF paymentData.amount.v <= 0
      THEN [isValid |-> FALSE, errors |-> << <<"amount must be greater than 0">> >>]
      ELSE [isValid |-> TRUE, errors |-> <<>>]

\* new Date().toISOString()
toISOString(t) ==
  <<"1970-01-01T00:00:00.", Digits36[((t \div 100) % 10) + 1],
    Digits36[((t \div 10) % 10) + 1], Digits36[(t % 10) + 1], "Z">>

generateUnifiedId(this, t, r) ==
  <<"unified_">> \o toLowerCase(this.gatewayName) \o <<"_">> \o Base36(t) \o <<"_", r>>

formatResponse(this, gatewayResponse, t, r) ==
  Returned([success |-> TRUE,
            gateway |-> Str(toLowerCase(this.gatewayName)),
            gatewayResponse |-> gatewayResponse,
            timestamp |-> Str(toISOString(t)),
            unifiedId |-> Str(generateUnifiedId(this, t, r))])

\* formatError that never reads error.code
formatError_DropsCode(this, error, t, r) ==
  IF IsNullish(error)
  THEN Threw(TypeError(<<"message">>))
  ELSE Returned([success |-> FALSE,
                 gateway |-> Str(toLowerCase(this.gatewayName)),
                 error |-> [message |-> error.message,
                            code |-> Str(<<"UNKNOWN_ERROR">>),
                            details |-> Or(error.details, Null)],
                 timestamp |-> Str(toISOString(t)),
                 unifiedId |-> Str(generateUnifiedId(this, t, r))])

\* reading error.message of undefined or null raises a TypeError in the
\* catch block, which nothing catches
formatError(this, error, t, r) ==
  IF IsNullish(error)
  THEN Threw(TypeError(<<"message">>))
  ELSE Returned([success |-> FALSE,
                 gateway |-> Str(toLowerCase(this.gatewayName)),
                 error |-> [message |-> error.message,
                            code |-> Or(error.code, Str(<<"UNKNOWN_ERROR">>)),
                            details |-> Or(error.details, Null)],
                 timestamp |-> Str(toISOString(t)),
                 unifiedId |-> Str(generateUnifiedId(this, t, r))])

(***************************************************************************)
(* GatewayFactory.                                                         *)
(***************************************************************************)
StripeKey == <<"s", "t", "r", "i", "p", "e">>
PaystackKey == <<"p", "a", "y", "s", "t", "a", "c", "k">>

StripeAdapter(config) ==
  LET super == BaseGatewayAdapter(StripeAdapterName, config)
  IN  [config |-> super.config, gatewayName |-> super.gatewayName,
       webhookSecret |-> config.webhookSecret]

PaystackAdapter(config) ==
  LET super == BaseGatewayAdapter(PaystackAdapterName, config)
  IN  [config |-> super.config, gatewayName |-> super.gatewayName,
       secretKey |-> config.secretKey, publicKey |-> config.publicKey,
       baseUrl |-> <<"https://api.paystack.co">>]

\* registration on a key that is merely defined, the empty string included
initializeAdapters_DefinedKey(e) ==
  LET names == (IF e.STRIPE_SECRET_KEY.t # "undefined" THEN {StripeKey} ELSE {})
               \cup (IF e.PAYSTACK_SECRET_KEY.t # "undefined" THEN {PaystackKey} ELSE {})
  IN  [n \in names |->
        IF n = StripeKey
        THEN StripeAdapter([secretKey |-> e.STRIPE_SECRET_KEY,
                            publishableKey |-> e.STRIPE_PUBLISHABLE_KEY,
                            webhookSecret |-> e.STRIPE_WEBHOOK_SECRET])
        ELSE PaystackAdapter([secretKey |-> e.PAYSTACK_SECRET_KEY,
                              publicKey |-> e.PAYSTACK_PUBLIC_KEY])]

initializeAdapters(e) ==
  LET names == (IF Truthy(e.STRIPE_SECRET_KEY) THEN {StripeKey} ELSE {})
               \cup (IF Truthy(e.PAYSTACK_SECRET_KEY) THEN {PaystackKey} ELSE {})
  IN  [n \in names |->
        IF n = StripeKey
        THEN StripeAdapter([secretKey |-> e.STRIPE_SECRET_KEY,
                            publishableKey |-> e.STRIPE_PUBLISHABLE_KEY,
                            webhookSecret |-> e.STRIPE_WEBHOOK_SECRET])
        ELSE PaystackAdapter([secretKey |-> e.PAYSTACK_SECRET_KEY,
                              publicKey |-> e.PAYSTACK_PUBLIC_KEY])]

\* a lookup that compares the name as given
isGatewayAvailable_CaseSensitive(gatewayName) == gatewayName \in DOMAIN adapters

isGatewayAvailable(gatewayName) == toLowerCase(gatewayName) \in DOMAIN adapters

getGateway(gatewayName) == adapters[toLowerCase(gatewayName)]

\* the environments a process can start with
SecretKeys == {Undefined, Str(<<>>), Str(<<"sk_live">>)}
Environments ==
  [STRIPE_SECRET_KEY : SecretKeys,
   STRIPE_PUBLISHABLE_KEY : {Undefined},
   STRIPE_WEBHOOK_SECRET : {Undefined, Str(<<"whsec">>)},
   PAYSTACK_SECRET_KEY : SecretKeys,
   PAYSTACK_PUBLIC_KEY : {Undefined},
   BASE_URL : {Str(<<"http://localhost:3001">>)}]

(***************************************************************************)
(* Inputs and provider outcomes.                                           *)
(***************************************************************************)
Amounts == {Undefined, Num(50)} \cup {Num(n) : n \in (0 - 1)..MaxAmount}
Currencies == {Undefined, Str(<<"U", "S", "D">>), Str(<<"n", "g", "n">>)}
PaymentMethodIds == {Undefined, Str(<<"pm_1">>)}
PaymentIntentIds == {Undefined, Str(<<"pi_1">>)}
Emails == {Undefined, Str(<<"a@b.co">>)}
Channels == {Undefined, Str(<<"card">>)}

PaymentObject(a, c, pm, pi, em, ch) ==
  [t |-> "object", amount |-> a, currency |-> c, paymentMethodId |-> pm,
   paymentIntentId |-> pi, customerEmail |-> em, channel |-> ch,
   description |-> Undefined, callbackUrl |-> Undefined, metadata |-> Undefined]

\* metadata a caller supplies: its own keys, or the keys the adapters set
CallerMetadata ==
  {[t |-> "object", props |-> [order_id |-> Str(<<"o1">>)]],
   [t |-> "object", props |-> [unified_payment_id |-> Str(<<"forged">>),
                               customer_email |-> Str(<<"x@y.z">>)]]}

WithMetadata(paymentData, metadata) == [paymentData EXCEPT !.metadata = metadata]

StripePaymentData ==
  {Undefined, Null} \cup
  {PaymentObject(a, c, pm, pi, em, Undefined) :
     a \in Amounts, c \in Currencies, pm \in PaymentMethodIds,
     pi \in PaymentIntentIds, em \in Emails} \cup
  {WithMetadata(PaymentObject(Num(50), Str(<<"U", "S", "D">>), pm, Undefined,
                              Str(<<"a@b.co">>), Undefined), md) :
     pm \in PaymentMethodIds, md \in CallerMetadata}

PaystackPaymentData ==
  {Undefined, Null} \cup
  {PaymentObject(a, c, Undefined, Undefined, em, ch) :
     a \in Amounts, c \in Currencies, em \in Emails, ch \in Channels} \cup
  {WithMetadata(PaymentObject(Num(50), Str(<<"n", "g", "n">>), Undefined, Undefined,
                              Str(<<"a@b.co">>), Undefined), md) :
     md \in CallerMetadata}

Reasons == {Undefined, Str(<<"duplicate">>)}
RefundAmounts == {Undefined, Num(50)} \cup {Num(n) : n \in 0..MaxAmount}

RefundObject(pi, ref, a, re) ==
  [t |-> "object", paymentIntentId |-> pi, transactionReference |-> ref,
   amount |-> a, reason |-> re]

StripeRefundData ==
  {Undefined, Null} \cup
  {RefundObject(pi, Undefined, a, re) :
     pi \in PaymentIntentIds \cup {Str(<<>>)}, a \in RefundAmounts, re \in Reasons}

PaystackRefundData ==
  {Undefined, Null} \cup
  {RefundObject(Undefined, ref, a, re) :
     ref \in {Undefined, Str(<<>>), Str(<<"ref_1">>)}, a \in RefundAmounts,
     re \in Reasons}

PaymentIds == {Undefined, Str(<<>>), Str(<<"pi_1">>)}

Resolved(v) == [settled |-> "resolved", value |-> v]
Rejected(e) == [settled |-> "rejected", reason |-> e]

ProviderAmounts == {Num(n) : n \in 0..MaxProviderAmount} \cup {Num(5000), Num(5050)}

\* what the Stripe SDK can reject a call with: a StripeError carrying the
\* provider's message and code, an error without a code, or any other value
StripeRejections ==
  {Rejected(ErrorWithCode(<<"Your card was declined.">>, <<"card_declined">>)),
   Rejected(Error(<<"An error occurred with our connection to Stripe.">>)),
   Rejected(Null), Rejected(Undefined)}

StripePaymentIntents ==
  {Resolved([t |-> "object", id |-> Str(<<"pi_9">>), status |-> Str(<<st>>),
             amount |-> a, currency |-> Str(<<"u", "s", "d">>),
             client_secret |-> Str(<<"pi_9_secret">>),
             next_action |-> Null, created |-> Num(1700000000),
             last_payment_error |-> Null]) :
     st \in {"succeeded", "requires_action"}, a \in {Num(5000)}}

\* { ...base, ...extra } for the provider metadata
Spread(base, extra) ==
  IF extra.t # "object" THEN base
  ELSE [k \in DOMAIN base \cup DOMAIN extra.props |->
          IF k \in DOMAIN extra.props THEN extra.props[k] ELSE base[k]]

(***************************************************************************)
(* StripeAdapter.processPayment                                            *)
(***************************************************************************)
Finished(completion) == [done |-> TRUE, ret |-> completion, crypto |-> 0]
FinishedAfterCrypto(completion) == [done |-> TRUE, ret |-> completion, crypto |-> 1]
Awaiting(request) == [done |-> FALSE, request |-> request, crypto |-> 0]

\* processPayment that looks at paymentIntentId before paymentMethodId
StripeProcessPaymentStart_IntentFirst(this, paymentData, t, r) ==
  IF IsNullish(paymentData)
  THEN Finished(formatError(this, TypeError(<<"amount">>), t, r))
  ELSE LET validation == validatePaymentData(paymentData)
       IN  IF ~validation.isValid
           THEN Finished(formatError(this,
                  Error(<<"Validation failed: ">> \o Join(validation.errors)), t, r))
           ELSE IF Truthy(paymentData.paymentIntentId)
           THEN Awaiting([api |-> "paymentIntents.confirm",
                          id |-> paymentData.paymentIntentId])
           ELSE IF Truthy(paymentData.paymentMethodId)
           THEN Awaiting([api |-> "paymentIntents.create",
                  amount |-> paymentData.amount,
                  currency |-> Str(toLowerCase(paymentData.currency.v)),
                  payment_method |-> paymentData.paymentMethodId,
                  confirm |-> TRUE,
                  description |-> Or(paymentData.description,
                                     Str(<<"Payment via Unified Payments API">>)),
                  metadata |-> Spread(
                    [unified_payment_id |-> Str(generateUnifiedId(this, t, r)),
                     customer_email |-> paymentData.customerEmail],
                    paymentData.metadata)])
           ELSE Awaiting([api |-> "paymentIntents.create",
                  amount |-> paymentData.amount,
                  currency |-> Str(toLowerCase(paymentData.currency.v)),
                  description |-> Or(paymentData.description,
                                     Str(<<"Payment via Unified Payments API">>)),
                  metadata |-> Spread(
                    [unified_payment_id |-> Str(generateUnifiedId(this, t, r)),
                     customer_email |-> paymentData.customerEmail],
                    paymentData.metadata)])

\* the part of the handler before the await: a completion, or the SDK call
StripeProcessPaymentStart(this, paymentData, t, r) ==
  IF IsNullish(paymentData)
  THEN Finished(formatError(this, TypeError(<<"amount">>), t, r))
  ELSE LET validation == validatePaymentData(paymentData)
       IN  IF ~validation.isValid
           THEN Finished(formatError(this,
                  Error(<<"Validation failed: ">> \o Join(validation.errors)), t, r))
           ELSE IF Truthy(paymentData.paymentMethodId)
           THEN Awaiting([api |-> "paymentIntents.create",
                  amount |-> paymentData.amount,
                  currency |-> Str(toLowerCase(paymentData.currency.v)),
                  payment_method |-> paymentData.paymentMethodId,
                  confirm |-> TRUE,
                  description |-> Or(paymentData.description,
                                     Str(<<"Payment via Unified Payments API">>)),
                  metadata |-> Spread(
                    [unified_payment_id |-> Str(generateUnifiedId(this, t, r)),
                     customer_email |-> paymentData.customerEmail],
                    paymentData.metadata)])
           ELSE IF Truthy(paymentData.paymentIntentId)
           THEN Awaiting([api |-> "paymentIntents.confirm",
                          id |-> paymentData.paymentIntentId])
           ELSE Awaiting([api |-> "paymentIntents.create",
                  amount |-> paymentData.amount,
                  currency |-> Str(toLowerCase(paymentData.currency.v)),
                  description |-> Or(paymentData.description,
                                     Str(<<"Payment via Unified Payments API">>)),
                  metadata |-> Spread(
                    [unified_payment_id |-> Str(generateUnifiedId(this, t, r)),
                     customer_email |-> paymentData.customerEmail],
                    paymentData.metadata)])

\* the part after the await
StripeProcessPaymentResume(this, outcome, t, r) ==
  IF outcome.settled = "rejected"
  THEN formatError(this, outcome.reason, t, r)
  ELSE LET paymentIntent == outcome.value
       IN  formatResponse(this,
             [paymentIntentId |-> paymentIntent.id,
              status |-> paymentIntent.status,
              amount |-> paymentIntent.amount,
              currency |-> paymentIntent.currency,
              clientSecret |-> paymentIntent.client_secret,
              requiresAction |-> (paymentIntent.status = Str(<<"requires_action">>)),
              nextAction |-> paymentIntent.next_action], t, r)

(***************************************************************************)
(* StripeAdapter.processRefund, getPaymentStatus, createPaymentIntent      *)
(***************************************************************************)
StripeRefunds ==
  {Resolved([t |-> "object", id |-> Str(<<"re_9">>), status |-> Str(<<"succeeded">>),
             amount |-> a, currency |-> Str(<<"u", "s", "d">>)]) :
     a \in {Num(5000)}}

\* processRefund without the check of paymentIntentId
StripeProcessRefundStart_NoCheck(this, refundData, t, r) ==
  IF IsNullish(refundData)
  THEN Finished(formatError(this, TypeError(<<"paymentIntentId">>), t, r))
  ELSE Awaiting([api |-> "refunds.create",
                 payment_intent |-> refundData.paymentIntentId,
                 amount |-> Or(refundData.amount, Undefined),
                 reason |-> Or(refundData.reason, Str(<<"requested_by_customer">>)),
                 metadata |-> [unified_refund_id |-> Str(generateUnifiedId(this, t, r)),
                               reason |-> refundData.reason]])

StripeProcessRefundStart(this, refundData, t, r) ==
  IF IsNullish(refundData)
  THEN Finished(formatError(this, TypeError(<<"paymentIntentId">>), t, r))
  ELSE IF ~Truthy(refundData.paymentIntentId)
  THEN Finished(formatError(this,
         Error(<<"paymentIntentId", " is required for refunds">>), t, r))
  ELSE Awaiting([api |-> "refunds.create",
                 payment_intent |-> refundData.paymentIntentId,
                 amount |-> Or(refundData.amount, Undefined),
                 reason |-> Or(refundData.reason, Str(<<"requested_by_customer">>)),
                 metadata |-> [unified_refund_id |-> Str(generateUnifiedId(this, t, r)),
                               reason |-> refundData.reason]])

StripeProcessRefundResume(this, outcome, t, r) ==
  IF outcome.settled = "rejected"
  THEN formatError(this, outcome.reason, t, r)
  ELSE LET refund == outcome.value
       IN  formatResponse(this,
             [refundId |-> refund.id, status |-> refund.status,
              amount |-> refund.amount, currency |-> refund.currency], t, r)

StripeGetPaymentStatusStart(this, paymentId) ==
  Awaiting([api |-> "paymentIntents.retrieve", id |-> paymentId])

StripeGetPaymentStatusResume(this, outcome, t, r) ==
  IF outcome.settled = "rejected"
  THEN formatError(this, outcome.reason, t, r)
  ELSE LET paymentIntent == outcome.value
       IN  formatResponse(this,
             [status |-> paymentIntent.status,
              amount |-> paymentIntent.amount,
              currency |-> paymentIntent.currency,
              created |-> paymentIntent.created,
              lastPaymentError |-> paymentIntent.last_payment_error], t, r)

StripeCreatePaymentIntentStart(this, intentData, t, r) ==
  IF IsNullish(intentData)
  THEN Finished(formatError(this, TypeError(<<"amount">>), t, r))
  ELSE LET validation == validatePaymentData(intentData)
       IN  IF ~validation.isValid
           THEN Finished(formatError(this,
                  Error(<<"Validation failed: ">> \o Join(validation.errors)), t, r))
           ELSE Awaiting([api |-> "paymentIntents.create",
                  amount |-> intentData.amount,
                  currency |-> Str(toLowerCase(intentData.currency.v)),
                  description |-> Or(intentData.description,
                                     Str(<<"Payment intent via Unified Payments API">>)),
                  metadata |-> Spread(
                    [unified_payment_id |-> Str(generateUnifiedId(this, t, r)),
                     customer_email |-> intentData.customerEmail],
                    intentData.metadata)])

StripeCreatePaymentIntentResume(this, outcome, t, r) ==
  IF outcome.settled = "rejected"
  THEN formatError(this, outcome.reason, t, r)
  ELSE LET paymentIntent == outcome.value
       IN  formatResponse(this,
             [paymentIntentId |-> paymentIntent.id,
              clientSecret |-> paymentIntent.client_secret,
              status |-> paymentIntent.status,
              amount |-> paymentIntent.amount,
              currency |-> paymentIntent.currency], t, r)

(***************************************************************************)
(* Webhook bodies, JSON.stringify and the keyed hash.                      *)
(***************************************************************************)
\* an object is its properties in insertion order
Object(props) == [t |-> "object", props |-> props]
Prop(k, v) == [k |-> k, v |-> v]

EventBodies ==
  {Object(<< Prop("event", Str(<<"charge.success">>)) >>),
   Object(<< Prop("event", Str(<<"charge.success">>)), Prop("extra", Undefined) >>),
   Object(<< Prop("event", Str(<<"charge.failed">>)) >>)}

WebhookBodies == {Undefined} \cup EventBodies

\* JSON.stringify of an object of strings and objects: a property whose
\* value is undefined is left out, and JSON.stringify(undefined) is undefined
RECURSIVE StringifyProps(_, _)
StringifyProps(props, first) ==
  IF Len(props) = 0 THEN <<>>
  ELSE IF props[1].v.t = "undefined" THEN StringifyProps(Tail(props), first)
  ELSE (IF first THEN <<>> ELSE <<",">>)
       \o <<"\"", props[1].k, "\":">>
       \o (IF props[1].v.t = "object"
           THEN <<"{">> \o StringifyProps(props[1].v.props, TRUE) \o <<"}">>
           ELSE <<"\"">> \o props[1].v.v \o <<"\"">>)
       \o StringifyProps(Tail(props), FALSE)

JSONStringify(value) ==
  IF value.t = "undefined" THEN Undefined
  ELSE Str(<<"{">> \o StringifyProps(value.props, TRUE) \o <<"}">>)

\* crypto.createHmac("sha512", key).update(data, "utf8").digest("hex"), with
\* the digest an uninterpreted term over the key and the data
Hmac(key, data) == <<"hmac-sha512(">> \o key \o <<"|">> \o data \o <<")">>

\* a signature with its last character changed
Flip(sig) == SubSeq(sig, 1, Len(sig) - 1) \o <<"(">>

SigningKeys == {<<"sk_live">>, <<"sk_other">>}

Signatures ==
  {Undefined, Str(<<>>)}
  \cup {Str(Hmac(k, JSONStringify(b).v)) : k \in SigningKeys, b \in EventBodies}
  \cup {Str(Flip(Hmac(k, JSONStringify(b).v))) : k \in SigningKeys, b \in EventBodies}

WebhookData ==
  {Undefined, Null}
  \cup {[t |-> "object", body |-> b, signature |-> sg] :
          b \in WebhookBodies, sg \in Signatures}

(***************************************************************************)
(* StripeAdapter.verifyWebhook                                             *)
(***************************************************************************)
\* stripe.webhooks.constructEvent returns the event or raises a
\* StripeSignatureVerificationError
ConstructEventOutcomes(body) ==
  {Resolved(body),
   Rejected(Error(<<"No signatures found matching the expected signature for payload">>))}

\* verifyWebhook that hands a missing signature to the SDK
StripeVerifyWebhookRun_NoSignatureCheck(this, webhookData, constructed) ==
  IF IsNullish(webhookData)
  THEN Finished(Returned([isValid |-> FALSE,
                          error |-> TypeError(<<"body">>).message]))
  ELSE IF constructed.settled = "rejected"
  THEN FinishedAfterCrypto(Returned([isValid |-> FALSE,
                                     error |-> constructed.reason.message]))
  ELSE FinishedAfterCrypto(Returned([isValid |-> TRUE, event |-> constructed.value]))

StripeVerifyWebhookRun(this, webhookData, constructed) ==
  IF IsNullish(webhookData)
  THEN Finished(Returned([isValid |-> FALSE,
                          error |-> TypeError(<<"body">>).message]))
  ELSE IF ~Truthy(webhookData.signature)
  THEN Finished(Returned([isValid |-> FALSE,
                          error |-> Error(<<"No signature provided">>).message]))
  ELSE IF constructed.settled = "rejected"
  THEN FinishedAfterCrypto(Returned([isValid |-> FALSE,
                                     error |-> constructed.reason.message]))
  ELSE FinishedAfterCrypto(Returned([isValid |-> TRUE, event |-> constructed.value]))

(***************************************************************************)
(* PaystackAdapter.verifyWebhook                                           *)
(***************************************************************************)
\* a comparison that accepts every signature
SignatureMismatch_Never(hash, signature) == FALSE

\* hash !== signature
SignatureMismatch(hash, signature) == hash # signature

PaystackVerifyWebhookRun(this, webhookData) ==
  IF IsNullish(webhookData)
  THEN Finished(Returned([isValid |-> FALSE,
                          error |-> TypeError(<<"body">>).message]))
  ELSE IF ~Truthy(webhookData.signature)
  THEN Finished(Returned([isValid |-> FALSE,
                          error |-> Error(<<"No signature provided">>).message]))
  ELSE LET data == JSONStringify(webhookData.body)
       IN  IF data.t # "string"
           THEN \* Hmac.update(undefined) raises ERR_INVALID_ARG_TYPE
                FinishedAfterCrypto(Returned([isValid |-> FALSE,
                  error |-> Error(<<"The \"data\" argument must be of type string">>).message]))
           ELSE LET hash == Str(Hmac(this.secretKey.v, data.v))
                IN  IF SignatureMismatch(hash, webhookData.signature)
                    THEN FinishedAfterCrypto(Returned([isValid |-> FALSE,
                           error |-> Error(<<"Invalid webhook signature">>).message]))
                    ELSE FinishedAfterCrypto(Returned([isValid |-> TRUE,
                                                       event |-> webhookData.body]))

(***************************************************************************)
(* PaystackAdapter.makeRequest                                             *)
(***************************************************************************)
\* JSON.stringify of the request data: properties that are undefined are
\* not sent
Payload(data) == [k \in {f \in DOMAIN data : data[f].t # "undefined"} |-> data[k]]

\* the call to fetch
Fetch(this, endpoint, method, data) ==
  LET url == this.baseUrl \o endpoint
      headers == [Authorization |-> <<"Bearer ">> \o this.secretKey.v,
                  ContentType |-> <<"application/json">>]
  IN  IF data.t # "null" /\ method \in {"POST", "PUT"}
      THEN [url |-> url, method |-> method, headers |-> headers,
            body |-> Payload(data.props)]
      ELSE [url |-> url, method |-> method, headers |-> headers]

\* what fetch and response.json() can do
Response(ok, status, json) ==
  [kind |-> "response", ok |-> ok, status |-> status, json |-> json]
FetchRejected(e) == [kind |-> "rejected", reason |-> e]

PaystackFailures ==
  {FetchRejected(Error(<<"fetch failed">>)),
   FetchRejected(Null),
   Response(TRUE, <<"200">>, Rejected(Error(<<"Unexpected token < in JSON">>))),
   Response(FALSE, <<"400">>,
            Resolved([t |-> "object", message |-> Str(<<"Invalid key">>),
                      code |-> Str(<<"invalid_Key">>), data |-> Undefined])),
   Response(FALSE, <<"502">>,
            Resolved([t |-> "object", message |-> Undefined,
                      code |-> Undefined, data |-> Undefined]))}

\* the rest of makeRequest once fetch has settled: the result, or the
\* error the catch block raises
makeRequest(outcome) ==
  LET caught(error) ==
        IF IsNullish(error)
        THEN Rejected(TypeError(<<"message">>))
        ELSE Rejected(Error(<<"Paystack request failed: ">> \o StringOf(error.message)))
  IN  IF outcome.kind = "rejected" THEN caught(outcome.reason)
      ELSE IF outcome.json.settled = "rejected" THEN caught(outcome.json.reason)
      ELSE LET result == outcome.json.value
           IN  IF ~outcome.ok
               THEN caught(Error(StringOf(
                      Or(result.message,
                         Str(<<"Paystack API error: ">> \o outcome.status)))))
               ELSE Resolved(result)

(***************************************************************************)
(* PaystackAdapter.processPayment, createPaymentIntent                     *)
(***************************************************************************)
PaystackInitialized ==
  {Response(TRUE, <<"200">>,
     Resolved([t |-> "object", message |-> Str(<<"Authorization URL created">>),
               code |-> Undefined,
               data |-> [t |-> "object", id |-> Num(7),
                         reference |-> Str(<<"ref_9">>),
                         authorization_url |-> Str(<<"https://checkout.paystack.com/x">>),
                         access_code |-> Str(<<"x">>)]])),
   Response(TRUE, <<"200">>,
     Resolved([t |-> "object", message |-> Undefined, code |-> Undefined,
               data |-> Undefined]))}

PaystackProcessPaymentStart(this, paymentData, t, r1, r2, r3) ==
  IF IsNullish(paymentData)
  THEN Finished(formatError(this, TypeError(<<"amount">>), t, r3))
  ELSE LET validation == validatePaymentData(paymentData)
       IN  IF ~validation.isValid
           THEN Finished(formatError(this,
                  Error(<<"Validation failed: ">> \o Join(validation.errors)), t, r3))
           ELSE IF ~Truthy(paymentData.customerEmail)
           THEN Finished(formatError(this,
                  Error(<<"customerEmail", " is required for Paystack payments">>), t, r3))
           ELSE LET transactionData ==
                      [amount |-> Times100(paymentData.amount),
                       email |-> paymentData.customerEmail,
                       currency |-> Str(toUpperCase(paymentData.currency.v)),
                       reference |-> Str(generateUnifiedId(this, t, r1)),
                       callback_url |-> Or(paymentData.callbackUrl,
                         Str(StringOf(env.BASE_URL) \o <<"/api/payments/callback">>)),
                       metadata |-> Object(Spread(
                         [unified_payment_id |-> Str(generateUnifiedId(this, t, r2)),
                          customer_email |-> paymentData.customerEmail],
                         paymentData.metadata)),
                       channels |-> IF Truthy(paymentData.channel)
                                    THEN [t |-> "array", items |-> <<paymentData.channel>>]
                                    ELSE Undefined]
                IN  Awaiting(Fetch(this, <<"/transaction/initialize">>, "POST",
                                   Object(transactionData)))

PaystackProcessPaymentResume(this, paymentData, outcome, t, r) ==
  LET transaction == makeRequest(outcome)
  IN  IF transaction.settled = "rejected"
      THEN formatError(this, transaction.reason, t, r)
      ELSE IF IsNullish(transaction.value.data)
      THEN formatError(this, TypeError(<<"id">>), t, r)
      ELSE formatResponse(this,
             [transactionId |-> transaction.value.data.id,
              reference |-> transaction.value.data.reference,
              authorizationUrl |-> transaction.value.data.authorization_url,
              accessCode |-> transaction.value.data.access_code,
              status |-> Str(<<"pending">>),
              amount |-> paymentData.amount,
              currency |-> paymentData.currency], t, r)

PaystackCreatePaymentIntentStart(this, intentData, t, r1, r2, r3) ==
  IF IsNullish(intentData)
  THEN Finished(formatError(this, TypeError(<<"amount">>), t, r3))
  ELSE LET validation == validatePaymentData(intentData)
       IN  IF ~validation.isValid
           THEN Finished(formatError(this,
                  Error(<<"Validation failed: ">> \o Join(validation.errors)), t, r3))
           ELSE IF ~Truthy(intentData.customerEmail)
           THEN Finished(formatError(this,
                  Error(<<"customerEmail", " is required for Paystack payment intents">>),
                  t, r3))
           ELSE LET transactionData ==
                      [amount |-> Times100(intentData.amount),
                       email |-> intentData.customerEmail,
                       currency |-> Str(toUpperCase(intentData.currency.v)),
                       reference |-> Str(generateUnifiedId(this, t, r1)),
                       callback_url |-> Or(intentData.callbackUrl,
                         Str(StringOf(env.BASE_URL) \o <<"/api/payments/callback">>)),
                       metadata |-> Object(Spread(
                         [unified_payment_id |-> Str(generateUnifiedId(this, t, r2)),
                          customer_email |-> intentData.customerEmail],
                         intentData.metadata))]
                IN  Awaiting(Fetch(this, <<"/transaction/initialize">>, "POST",
                                   Object(transactionData)))

PaystackCreatePaymentIntentResume(this, intentData, outcome, t, r) ==
  LET transaction == makeRequest(outcome)
  IN  IF transaction.settled = "rejected"
      THEN formatError(this, transaction.reason, t, r)
      ELSE IF IsNullish(transaction.value.data)
      THEN formatError(this, TypeError(<<"id">>), t, r)
      ELSE formatResponse(this,
             [transactionId |-> transaction.value.data.id,
              reference |-> transaction.value.data.reference,
              authorizationUrl |-> transaction.value.data.authorization_url,
              accessCode |-> transaction.value.data.access_code,
              status |-> Str(<<"pending">>),
              amount |-> intentData.amount,
              currency |-> intentData.currency], t, r)

(***************************************************************************)
(* PaystackAdapter.processRefund, getPaymentStatus                         *)
(***************************************************************************)
PaystackRefunded ==
  {Response(TRUE, <<"200">>,
     Resolved([t |-> "object", message |-> Str(<<"Refund has been queued">>),
               code |-> Undefined,
               data |-> [t |-> "object", id |-> Num(8), status |-> Str(<<"pending">>),
                         amount |-> a, currency |-> Str(<<"N", "G", "N">>),
                         reference |-> Str(<<"ref_1">>)]])) :
     a \in ProviderAmounts}

PaystackProcessRefundStart(this, refundData, t, r) ==
  IF IsNullish(refundData)
  THEN Finished(formatError(this, TypeError(<<"transactionReference">>), t, r))
  ELSE IF ~Truthy(refundData.transactionReference)
  THEN Finished(formatError(this,
         Error(<<"transactionReference", " is required for Paystack refunds">>), t, r))
  ELSE LET refundDataPayload ==
             [transaction |-> refundData.transactionReference,
              amount |-> IF Truthy(refundData.amount)
                         THEN Times100(refundData.amount) ELSE Undefined,
              reason |-> Or(refundData.reason, Str(<<"requested_by_customer">>))]
       IN  Awaiting(Fetch(this, <<"/refund">>, "POST", Object(refundDataPayload)))

PaystackProcessRefundResume(this, outcome, t, r) ==
  LET refund == makeRequest(outcome)
  IN  IF refund.settled = "rejected"
      THEN formatError(this, refund.reason, t, r)
      ELSE IF IsNullish(refund.value.data)
      THEN formatError(this, TypeError(<<"id">>), t, r)
      ELSE formatResponse(this,
             [refundId |-> refund.value.data.id,
              status |-> refund.value.data.status,
              amount |-> Div100(refund.value.data.amount),
              currency |-> refund.value.data.currency,
              reference |-> refund.value.data.reference], t, r)

PaystackVerified ==
  {Response(TRUE, <<"200">>,
     Resolved([t |-> "object", message |-> Str(<<"Verification successful">>),
               code |-> Undefined,
               data |-> [t |-> "object", status |-> Str(<<"success">>),
                         amount |-> a, currency |-> Str(<<"N", "G", "N">>),
                         reference |-> Str(<<"ref_1">>), gateway |-> Undefined,
                         channel |-> Str(<<"card">>), paid_at |-> Null,
                         created_at |-> Str(<<"2024-01-15T10:25:00.000Z">>)]])) :
     a \in ProviderAmounts}

PaystackGetPaymentStatusStart(this, paymentReference, t, r) ==
  IF ~Truthy(paymentReference)
  THEN Finished(formatError(this, Error(<<"Payment reference is required">>), t, r))
  ELSE Awaiting(Fetch(this, <<"/transaction/verify/">> \o StringOf(paymentReference),
                      "GET", Null))

PaystackGetPaymentStatusResume(this, outcome, t, r) ==
  LET transaction == makeRequest(outcome)
  IN  IF transaction.settled = "rejected"
      THEN formatError(this, transaction.reason, t, r)
      ELSE IF IsNullish(transaction.value.data)
      THEN formatError(this, TypeError(<<"status">>), t, r)
      ELSE formatResponse(this,
             [status |-> transaction.value.data.status,
              amount |-> Div100(transaction.value.data.amount),
              currency |-> transaction.value.data.currency,
              reference |-> transaction.value.data.reference,
              gateway |-> transaction.value.data.gateway,
              channel |-> transaction.value.data.channel,
              paidAt |-> transaction.value.data.paid_at,
              createdAt |-> transaction.value.data.created_at], t, r)

\* an adapter method runs up to its await (or to its return)
Begin(gateway, method, arg, start) ==
  /\ pc = "idle"
  /\ isGatewayAvailable(gateway)
  /\ call' = [gateway |-> gateway, method |-> method, arg |-> arg]
  /\ crypto' = start.crypto
  /\ reply' = NoReply
  /\ IF start.done
     THEN /\ pc' = "done"
          /\ sent' = <<>>
          /\ ret' = start.ret
     ELSE /\ pc' = "awaiting"
          /\ sent' = <<start.request>>
          /\ ret' = NoRet
  /\ UNCHANGED <<env, adapters, inflight, server>>

\* the awaited provider call settles and the method runs to its return
Settle(gateway, method, outcome, completion) ==
  /\ pc = "awaiting"
  /\ call.gateway = gateway
  /\ call.method = method
  /\ pc' = "done"
  /\ reply' = outcome
  /\ ret' = completion
  /\ UNCHANGED <<env, adapters, call, sent, crypto, inflight, server>>

StripeProcessPayment ==
  \E paymentData \in StripePaymentData, t \in Times, r \in Rands :
    Begin(StripeKey, "processPayment", paymentData,
          StripeProcessPaymentStart(getGateway(StripeKey), paymentData, t, r))

StripeProcessPaymentSettled ==
  \E outcome \in StripePaymentIntents \cup StripeRejections,
     t \in Times, r \in Rands :
    Settle(StripeKey, "processPayment", outcome,
           StripeProcessPaymentResume(getGateway(StripeKey), outcome, t, r))

StripeProcessRefund ==
  \E refundData \in StripeRefundData, t \in Times, r \in Rands :
    Begin(StripeKey, "processRefund", refundData,
          StripeProcessRefundStart(getGateway(StripeKey), refundData, t, r))

StripeProcessRefundSettled ==
  \E outcome \in StripeRefunds \cup StripeRejections, t \in Times, r \in Rands :
    Settle(StripeKey, "processRefund", outcome,
           StripeProcessRefundResume(getGateway(StripeKey), outcome, t, r))

StripeGetPaymentStatus ==
  \E paymentId \in PaymentIds :
    Begin(StripeKey, "getPaymentStatus", paymentId,
          StripeGetPaymentStatusStart(getGateway(StripeKey), paymentId))

StripeGetPaymentStatusSettled ==
  \E outcome \in StripePaymentIntents \cup StripeRejections,
     t \in Times, r \in Rands :
    Settle(StripeKey, "getPaymentStatus", outcome,
           StripeGetPaymentStatusResume(getGateway(StripeKey), outcome, t, r))

StripeCreatePaymentIntent ==
  \E intentData \in StripePaymentData, t \in Times, r \in Rands :
    Begin(StripeKey, "createPaymentIntent", intentData,
          StripeCreatePaymentIntentStart(getGateway(StripeKey), intentData, t, r))

StripeCreatePaymentIntentSettled ==
  \E outcome \in StripePaymentIntents \cup StripeRejections,
     t \in Times, r \in Rands :
    Settle(StripeKey, "createPaymentIntent", outcome,
           StripeCreatePaymentIntentResume(getGateway(StripeKey), outcome, t, r))

StripeVerifyWebhook ==
  \E webhookData \in WebhookData :
    \E constructed \in ConstructEventOutcomes(
                         IF IsNullish(webhookData) THEN Undefined ELSE webhookData.body) :
      Begin(StripeKey, "verifyWebhook", webhookData,
            StripeVerifyWebhookRun(getGateway(StripeKey), webhookData, constructed))

PaystackVerifyWebhook ==
  \E webhookData \in WebhookData :
    Begin(PaystackKey, "verifyWebhook", webhookData,
          PaystackVerifyWebhookRun(getGateway(PaystackKey), webhookData))

PaystackProcessPayment ==
  \E paymentData \in PaystackPaymentData, t \in Times, r1, r2, r3 \in Rands :
    Begin(PaystackKey, "processPayment", paymentData,
          PaystackProcessPaymentStart(getGateway(PaystackKey), paymentData,
                                      t, r1, r2, r3))

PaystackProcessPaymentSettled ==
  \E outcome \in PaystackInitialized \cup PaystackFailures, t \in Times, r \in Rands :
    Settle(PaystackKey, "processPayment", outcome,
           PaystackProcessPaymentResume(getGateway(PaystackKey), call.arg, outcome, t, r))

PaystackCreatePaymentIntent ==
  \E intentData \in PaystackPaymentData, t \in Times, r1, r2, r3 \in Rands :
    Begin(PaystackKey, "createPaymentIntent", intentData,
          PaystackCreatePaymentIntentStart(getGateway(PaystackKey), intentData,
                                           t, r1, r2, r3))

PaystackCreatePaymentIntentSettled ==
  \E outcome \in PaystackInitialized \cup PaystackFailures, t \in Times, r \in Rands :
    Settle(PaystackKey, "createPaymentIntent", outcome,
           PaystackCreatePaymentIntentResume(getGateway(PaystackKey), call.arg,
                                             outcome, t, r))

PaystackProcessRefund ==
  \E refundData \in PaystackRefundData, t \in Times, r \in Rands :
    Begin(PaystackKey, "processRefund", refundData,
          PaystackProcessRefundStart(getGateway(PaystackKey), refundData, t, r))

PaystackProcessRefundSettled ==
  \E outcome \in PaystackRefunded \cup PaystackFailures, t \in Times, r \in Rands :
    Settle(PaystackKey, "processRefund", outcome,
           PaystackProcessRefundResume(getGateway(PaystackKey), outcome, t, r))

PaystackGetPaymentStatus ==
  \E paymentReference \in PaymentIds, t \in Times, r \in Rands :
    Begin(PaystackKey, "getPaymentStatus", paymentReference,
          PaystackGetPaymentStatusStart(getGateway(PaystackKey), paymentReference, t, r))

PaystackGetPaymentStatusSettled ==
  \E outcome \in PaystackVerified \cup PaystackFailures, t \in Times, r \in Rands :
    Settle(PaystackKey, "getPaymentStatus", outcome,
           PaystackGetPaymentStatusResume(getGateway(PaystackKey), outcome, t, r))

\* the caller has its result; the adapter is called again
Complete ==
  /\ pc = "done"
  /\ pc' = "idle"
  /\ call' = NoCall
  /\ sent' = <<>>
  /\ crypto' = 0
  /\ reply' = NoReply
  /\ ret' = NoRet
  /\ UNCHANGED <<env, adapters, inflight, server>>

(***************************************************************************)
(* Concurrent invocations: the state each one keeps in its own locals.     *)
(***************************************************************************)
Slots == 1..MaxInFlight

IdleSlot ==
  [pc |-> "idle", call |-> NoCall, sent |-> <<>>, reply |-> NoReply, ret |-> NoRet]

NoInflight == [s \in Slots |-> IdleSlot]

(***************************************************************************)
(* server.js: the rate limiters and their mount paths.                     *)
(***************************************************************************)
GeneralWindowMs == 900000  \* 15 * 60 * 1000
GeneralMax == 100
PaymentWindowMs == 60000  \* 1 * 60 * 1000
PaymentMax == 10

\* the limiters in the order app.use mounts them; a path is its segments
Limiters ==
  << [name |-> "limiter", mount |-> <<"api">>,
      windowMs |-> GeneralWindowMs, max |-> GeneralMax],
     [name |-> "paymentLimiter", mount |-> <<"api", "pay">>,
      windowMs |-> PaymentWindowMs, max |-> PaymentMax] >>

LimiterNames == {Limiters[i].name : i \in 1..Len(Limiters)}

\* the mount path of the payment routes
PaymentRoutes == <<"api", "payments">>

\* the clients and the URLs they request
Clients == {"10.0.0.1", "10.0.0.2"}
Paths == {<<"api", "payments", "process">>, <<"api", "pay">>}

NoHits == [totalHits |-> 0, resetTime |-> 0]
EmptyStore == [l \in LimiterNames |-> [ip \in Clients |-> NoHits]]
NoneReceived == [ip \in Clients |-> [path \in Paths |-> 0]]
NoResponse == [ip |-> "", path |-> <<>>, status |-> "none", by |-> "none"]

EmptyMap == [k \in {} |-> TRUE]

\* rateLimitByApiKey() with its default parameters, before any request
DefaultKeyLimiter == [maxRequests |-> 100, windowMs |-> 900000, requests |-> EmptyMap]

NoHttp == [req |-> Undefined, calls |-> <<>>, res |-> Undefined]

ServerStarted ==
  /\ clock = 0
  /\ store = EmptyStore
  /\ received = NoneReceived
  /\ response = NoResponse
  /\ keyLimiter = DefaultKeyLimiter
  /\ history = <<>>
  /\ http = NoHttp

Init ==
  /\ env \in Environments
  /\ adapters = initializeAdapters(env)
  /\ pc = "idle"
  /\ call = NoCall
  /\ sent = <<>>
  /\ crypto = 0
  /\ reply = NoReply
  /\ ret = NoRet
  /\ inflight = NoInflight
  /\ ServerStarted

Next ==
  \/ StripeProcessPayment
  \/ StripeProcessPaymentSettled
  \/ StripeProcessRefund
  \/ StripeProcessRefundSettled
  \/ StripeGetPaymentStatus
  \/ StripeGetPaymentStatusSettled
  \/ StripeCreatePaymentIntent
  \/ StripeCreatePaymentIntentSettled
  \/ StripeVerifyWebhook
  \/ PaystackVerifyWebhook
  \/ PaystackProcessPayment
  \/ PaystackProcessPaymentSettled
  \/ PaystackCreatePaymentIntent
  \/ PaystackCreatePaymentIntentSettled
  \/ PaystackProcessRefund
  \/ PaystackProcessRefundSettled
  \/ PaystackGetPaymentStatus
  \/ PaystackGetPaymentStatusSettled
  \/ Complete

Spec == Init /\ [][Next]_vars

(***************************************************************************)
(* The adapters' static capability lists.                                  *)
(***************************************************************************)
StripeSupportedCurrencies ==
  <<"usd", "eur", "gbp", "cad", "aud", "jpy", "chf", "sek", "nok", "dkk",
    "pln", "czk", "huf", "ron", "bgn", "hrk", "rub", "try", "brl", "mxn",
    "ars", "clp", "cop", "pen", "uyu", "pyg", "bob", "ecv", "gtq", "hnl",
    "nio", "crc", "pab", "vef", "dop", "jmd", "ttd", "bbd", "bzd", "xcd",
    "htg", "awg", "ang", "srd", "gyd", "fjd", "pgk", "wst", "vuv", "top",
    "sbd", "kwd", "bhd", "omr", "qar", "aed", "sar", "jod", "lbp", "egp",
    "mad", "tnd", "lyd", "dzd", "mro", "mru", "ngn", "ghs", "kes", "ugx",
    "tzs", "bif", "rwf", "djf", "kmf", "mga", "mur", "scr", "szl", "zmw",
    "mwk", "bwp", "naf", "szl", "ls", "stn", "aoa", "cve", "gmd", "gnb",
    "gw", "mrt", "ml", "bf", "bj", "tg", "ci", "sn", "gm", "gn", "sl",
    "lr", "cm", "cf", "td", "ne", "sd", "er", "et", "so", "dj", "yt", "km",
    "mg", "re", "mu", "sc", "com", "km", "yt", "dj", "so", "et", "er",
    "sd", "ne", "td", "cf", "cm", "lr", "sl", "gn", "gm", "sn", "ci", "tg",
    "bj", "bf", "ml", "mrt", "gw", "gnb", "gmd", "cve", "aoa">>

StripeSupportedPaymentMethods ==
  <<"card", "bank_transfer", "sepa_debit", "sofort", "ideal", "bancontact",
    "eps", "giropay", "p24", "alipay", "wechat_pay", "klarna", "affirm",
    "afterpay_clearpay">>

PaystackSupportedCurrencies ==
  <<"NGN", "GHS", "ZAR", "USD", "EUR", "GBP", "KES", "UGX", "TZS", "ZMW",
    "MAD", "EGP", "XOF", "XAF", "CDF", "RWF", "BIF", "DJF", "KMF", "MGA",
    "MUR", "SCR", "SZL", "MWK", "BWP", "NAD", "LSL", "STN", "AOA", "CVE",
    "GMD", "GNF", "GW", "MRT", "ML", "BF", "BJ", "TG", "CI", "SN", "GM",
    "GN", "SL", "LR", "CM", "CF", "TD", "NE", "SD", "ER", "ET", "SO", "DJ",
    "YT", "KM", "MG", "RE", "MU", "SC", "COM">>

PaystackSupportedPaymentMethods ==
  <<"card", "bank", "ussd", "qr", "mobile_money", "bank_transfer",
    "payattitude", "paga", "1voucher", "gt_bank", "internet_banking",
    "cashenvoy", "providus_bank", "pay_with_bank",
    "pay_with_bank_transfer", "standard_bank", "zenith_bank",
    "access_bank", "gt_bank", "first_bank", "fidelity_bank", "ecobank",
    "stanbic_bank", "union_bank", "wema_bank", "heritage_bank",
    "keystone_bank", "polaris_bank", "unity_bank", "jaiz_bank",
    "stanbic_ibtc_bank", "diamond_bank", "mainstreet_bank", "fcmb_bank",
    "uba_bank", "fidelity_bank", "ecobank", "stanbic_bank", "union_bank",
    "wema_bank", "heritage_bank", "keystone_bank", "polaris_bank",
    "unity_bank", "jaiz_bank", "stanbic_ibtc_bank", "diamond_bank",
    "mainstreet_bank", "fcmb_bank", "uba_bank">>

\* the method of the adapter's class
getSupportedCurrencies(this) ==
  IF this.gatewayName = StripeAdapterName
  THEN StripeSupportedCurrencies ELSE PaystackSupportedCurrencies

\* an adapter class that answers with the Stripe list
getSupportedPaymentMethods_AlwaysStripe(this) == StripeSupportedPaymentMethods

getSupportedPaymentMethods(this) ==
  IF this.gatewayName = StripeAdapterName
  THEN StripeSupportedPaymentMethods ELSE PaystackSupportedPaymentMethods

(***************************************************************************)
(* GatewayFactory: lookups and reports.                                    *)
(***************************************************************************)
\* gatewayName.toLowerCase() on a value that is not a string
NotAString(v) ==
  IF IsNullish(v) THEN TypeError("toLowerCase")
  ELSE Error(<<"gatewayName.toLowerCase is not a function">>)

\* getGateway called with any value: the adapter or the raised error
getGatewayCall(gatewayName) ==
  IF gatewayName.t # "string" THEN Threw(NotAString(gatewayName))
  ELSE IF toLowerCase(gatewayName.v) \notin DOMAIN adapters
  THEN Threw(Error(<<"Unsupported payment gateway: ">> \o gatewayName.v))
  ELSE Returned(getGateway(gatewayName.v))

\* isGatewayAvailable called with any value
isGatewayAvailableCall(gatewayName) ==
  IF gatewayName.t # "string" THEN Threw(NotAString(gatewayName))
  ELSE Returned(isGatewayAvailable(gatewayName.v))

\* Array.from(this.adapters.keys()): the keys in insertion order
getAvailableGateways ==
  (IF StripeKey \in DOMAIN adapters THEN <<StripeKey>> ELSE <<>>)
  \o (IF PaystackKey \in DOMAIN adapters THEN <<PaystackKey>> ELSE <<>>)

getGatewayCapabilities(gatewayName) ==
  LET gateway == getGatewayCall(gatewayName)
  IN  IF gateway.kind = "threw" THEN gateway
      ELSE Returned([name |-> gatewayName,
                     supportedCurrencies |-> getSupportedCurrencies(gateway.value),
                     supportedPaymentMethods |-> getSupportedPaymentMethods(gateway.value),
                     features |-> [refunds |-> TRUE, webhooks |-> TRUE,
                                   paymentIntents |-> TRUE, statusChecking |-> TRUE]])

getAllGatewayCapabilities ==
  Returned([name \in DOMAIN adapters |-> getGatewayCapabilities(Str(name)).value])

\* a validateConfiguration that reports an error when no gateway is configured
validateConfiguration_ErrorsWhenNone ==
  LET errors == IF ~Truthy(env.STRIPE_SECRET_KEY) /\ ~Truthy(env.PAYSTACK_SECRET_KEY)
                THEN << <<"No payment gateway is configured">> >> ELSE <<>>
  IN  [isValid |-> Len(errors) = 0, errors |-> errors,
       warnings |-> << <<"All supported gateways are configured">> >>,
       availableGateways |-> getAvailableGateways]

validateConfiguration ==
  LET errors == <<>>
      w1 == IF ~Truthy(env.STRIPE_SECRET_KEY)
            THEN << <<"Stripe is not configured (", "STRIPE_SECRET_KEY", " missing)">> >>
            ELSE <<>>
      w2 == IF ~Truthy(env.PAYSTACK_SECRET_KEY)
            THEN w1 \o << <<"Paystack is not configured (", "PAYSTACK_SECRET_KEY",
                            " missing)">> >>
            ELSE w1
      warnings == IF Len(w2) = 0
                  THEN << <<"All supported gateways are configured">> >> ELSE w2
  IN  [isValid |-> Len(errors) = 0, errors |-> errors, warnings |-> warnings,
       availableGateways |-> getAvailableGateways]

\* statistics that count the supported gateways instead of the registered ones
getGatewayStats_CountsSupported ==
  [totalGateways |-> 2,
   availableGateways |-> getAvailableGateways,
   configurationStatus |-> validateConfiguration]

getGatewayStats ==
  [totalGateways |-> Cardinality(DOMAIN adapters),
   availableGateways |-> getAvailableGateways,
   configurationStatus |-> validateConfiguration]

\* the names a caller passes: any letter case, unregistered names, and values
\* that are not strings
GatewayNames ==
  {Undefined, Null, Num(5), Str(<<>>), Str(StripeKey), Str(PaystackKey),
   Str(<<"S", "t", "r", "i", "p", "e">>),
   Str(<<"P", "A", "Y", "S", "T", "A", "C", "K">>),
   Str(<<"p", "a", "y", "p", "a", "l">>)}

\* the environments of the factory, with the optional keys present or absent
FactoryEnvironments ==
  [STRIPE_SECRET_KEY : SecretKeys,
   STRIPE_PUBLISHABLE_KEY : {Undefined, Str(<<"pk_live">>)},
   STRIPE_WEBHOOK_SECRET : {Undefined, Str(<<"whsec">>)},
   PAYSTACK_SECRET_KEY : SecretKeys,
   PAYSTACK_PUBLIC_KEY : {Undefined, Str(<<"pk_live">>)},
   BASE_URL : {Str(<<"http://localhost:3001">>)}]

\* a synchronous call of a factory method
FactoryCall(method, arg, completion) ==
  /\ pc = "idle"
  /\ call' = [gateway |-> <<>>, method |-> method, arg |-> arg]
  /\ pc' = "done"
  /\ ret' = completion
  /\ UNCHANGED <<env, adapters, sent, crypto, reply, inflight, server>>

GetGateway ==
  \E gatewayName \in GatewayNames :
    FactoryCall("getGateway", gatewayName, getGatewayCall(gatewayName))

IsGatewayAvailable ==
  \E gatewayName \in GatewayNames :
    FactoryCall("isGatewayAvailable", gatewayName, isGatewayAvailableCall(gatewayName))

GetGatewayCapabilities ==
  \E gatewayName \in GatewayNames :
    FactoryCall("getGatewayCapabilities", gatewayName,
                getGatewayCapabilities(gatewayName))

GetAllGatewayCapabilities ==
  FactoryCall("getAllGatewayCapabilities", Undefined, getAllGatewayCapabilities)

ValidateConfiguration ==
  FactoryCall("validateConfiguration", Undefined, Returned(validateConfiguration))

GetGatewayStats ==
  FactoryCall("getGatewayStats", Undefined, Returned(getGatewayStats))

FactoryInit ==
  /\ env \in FactoryEnvironments
  /\ adapters = initializeAdapters(env)
  /\ pc = "idle"
  /\ call = NoCall
  /\ sent = <<>>
  /\ crypto = 0
  /\ reply = NoReply
  /\ ret = NoRet
  /\ inflight = NoInflight
  /\ ServerStarted

FactoryNext ==
  \/ GetGateway
  \/ IsGatewayAvailable
  \/ GetGatewayCapabilities
  \/ GetAllGatewayCapabilities
  \/ ValidateConfiguration
  \/ GetGatewayStats
  \/ Complete

FactorySpec == FactoryInit /\ [][FactoryNext]_vars

(***************************************************************************)
(* server.js: a request passes the mounted rate limiters, then the routes. *)
(***************************************************************************)
\* Express matches a mount path on whole segments of the URL
MountMatches(mount, path) ==
  Len(mount) <= Len(path) /\ SubSeq(path, 1, Len(mount)) = mount

\* express-rate-limit's store: count the hit in the client's current window
Hit(entry, limiter) ==
  IF entry.totalHits = 0 \/ clock >= entry.resetTime
  THEN [totalHits |-> 1, resetTime |-> clock + limiter.windowMs]
  ELSE [totalHits |-> entry.totalHits + 1, resetTime |-> entry.resetTime]

\* the middleware chain from limiter i on: the first limiter over its max
\* answers 429, otherwise next() reaches the routes
RECURSIVE Through(_, _, _, _)
Through(i, st, ip, path) ==
  IF i > Len(Limiters) THEN [store |-> st, status |-> "next", by |-> "routes"]
  ELSE LET limiter == Limiters[i]
       IN  IF ~MountMatches(limiter.mount, path) THEN Through(i + 1, st, ip, path)
           ELSE LET entry == Hit(st[limiter.name][ip], limiter)
                    counted == [st EXCEPT ![limiter.name][ip] = entry]
                IN  IF entry.totalHits > limiter.max
                    THEN [store |-> counted, status |-> "429", by |-> limiter.name]
                    ELSE Through(i + 1, counted, ip, path)

RECURSIVE Sum(_, _)
Sum(f, S) ==
  IF S = {} THEN 0
  ELSE LET x == CHOOSE y \in S : TRUE IN f[x] + Sum(f, S \ {x})

\* the requests the server has answered since it started
Answered == Sum([ip \in Clients |-> store["limiter"][ip].totalHits], Clients)

Request ==
  \E ip \in Clients, path \in Paths :
    /\ Answered < MaxRequests
    /\ LET handled == Through(1, store, ip, path)
       IN  /\ store' = handled.store
           /\ response' = [ip |-> ip, path |-> path,
                           status |-> handled.status, by |-> handled.by]
    /\ received' = [received EXCEPT ![ip][path] = @ + 1]
    /\ UNCHANGED <<env, adapters, pc, call, sent, crypto, reply, ret, inflight, clock,
                   keyLimiter, history, http>>

\* a minute passes
Tick ==
  /\ clock < MaxMinutes * 60000
  /\ clock' = clock + 60000
  /\ received' = NoneReceived
  /\ UNCHANGED <<env, adapters, pc, call, sent, crypto, reply, ret, inflight,
                 store, response, keyLimiter, history, http>>

ServerInit ==
  /\ env \in {e \in Environments :
                /\ Truthy(e.STRIPE_SECRET_KEY)
                /\ Truthy(e.PAYSTACK_SECRET_KEY)
                /\ Truthy(e.STRIPE_WEBHOOK_SECRET)}
  /\ adapters = initializeAdapters(env)
  /\ pc = "idle"
  /\ call = NoCall
  /\ sent = <<>>
  /\ crypto = 0
  /\ reply = NoReply
  /\ ret = NoRet
  /\ inflight = NoInflight
  /\ ServerStarted

ServerNext == Request \/ Tick

ServerSpec == ServerInit /\ [][ServerNext]_vars

(***************************************************************************)
(* Concurrent processPayment invocations on the Paystack adapter: every    *)
(* invocation looks the adapter up, builds its request, awaits its own     *)
(* response and resumes when the event loop schedules it.                  *)
(***************************************************************************)
ConcurrentPayments ==
  {PaymentObject(Num(n), Str(<<"n", "g", "n">>), Undefined, Undefined,
                 Str(<<"a@b.co">>), Undefined) : n \in 0..2}

ConcurrentResponses ==
  {o \in PaystackInitialized \cup PaystackFailures :
     /\ o.kind = "response"
     /\ o.json.settled = "resolved"
     /\ o.json.value.message.t = "string"}

SlotRands == {"k3x9q"}

\* a continuation that reads the response delivered last to any invocation
AwaitedResponse_Shared(s) == reply

\* the value of `await this.makeRequest(...)` in invocation s
AwaitedResponse(s) == inflight[s].reply

Invoke(s) ==
  /\ inflight[s].pc = "idle"
  /\ \E paymentData \in ConcurrentPayments, t \in Times, r \in SlotRands :
       LET invocation == [gateway |-> PaystackKey, method |-> "processPayment",
                    arg |-> paymentData]
           gateway == getGatewayCall(Str(PaystackKey))
       IN  IF gateway.kind = "threw"
           THEN inflight' = [inflight EXCEPT ![s] =
                  [pc |-> "done", call |-> invocation, sent |-> <<>>,
                   reply |-> NoReply, ret |-> gateway]]
           ELSE LET start == PaystackProcessPaymentStart(gateway.value, paymentData,
                                                         t, r, r, r)
                IN  inflight' = [inflight EXCEPT ![s] =
                      IF start.done
                      THEN [pc |-> "done", call |-> invocation, sent |-> <<>>,
                            reply |-> NoReply, ret |-> start.ret]
                      ELSE [pc |-> "awaiting", call |-> invocation,
                            sent |-> <<start.request>>,
                            reply |-> NoReply, ret |-> NoRet]]
  /\ UNCHANGED <<env, adapters, pc, call, sent, crypto, reply, ret, server>>

\* the provider answers the request of invocation s
Respond(s) ==
  /\ inflight[s].pc = "awaiting"
  /\ \E outcome \in ConcurrentResponses :
       /\ inflight' = [inflight EXCEPT ![s].pc = "settled", ![s].reply = outcome]
       /\ reply' = outcome
  /\ UNCHANGED <<env, adapters, pc, call, sent, crypto, ret, server>>

\* invocation s continues after its await and returns
Resume(s) ==
  /\ inflight[s].pc = "settled"
  /\ \E t \in Times, r \in SlotRands :
       inflight' = [inflight EXCEPT
         ![s].pc = "done",
         ![s].ret = PaystackProcessPaymentResume(getGateway(PaystackKey),
                      inflight[s].call.arg, AwaitedResponse(s), t, r)]
  /\ UNCHANGED <<env, adapters, pc, call, sent, crypto, reply, ret, server>>

\* the caller of invocation s has its result
Release(s) ==
  /\ inflight[s].pc = "done"
  /\ inflight' = [inflight EXCEPT ![s] = IdleSlot]
  /\ UNCHANGED <<env, adapters, pc, call, sent, crypto, reply, ret, server>>

ConcurrentInit ==
  /\ env \in {e \in Environments : e.STRIPE_WEBHOOK_SECRET = Undefined}
  /\ adapters = initializeAdapters(env)
  /\ pc = "idle"
  /\ call = NoCall
  /\ sent = <<>>
  /\ crypto = 0
  /\ reply = NoReply
  /\ ret = NoRet
  /\ inflight = NoInflight
  /\ ServerStarted

ConcurrentNext ==
  \E s \in Slots :
    \/ Invoke(s)
    \/ Respond(s)
    \/ Resume(s)
    \/ Release(s)

ConcurrentSpec == ConcurrentInit /\ [][ConcurrentNext]_vars

(***************************************************************************)
(* The environment changes while the process runs: the factory keeps the   *)
(* registry it built and reads process.env again in validateConfiguration. *)
(***************************************************************************)
SetEnv ==
  \E name \in {"STRIPE_SECRET_KEY", "PAYSTACK_SECRET_KEY"}, value \in SecretKeys :
    /\ pc = "idle"
    /\ env[name] # value
    /\ env' = [env EXCEPT ![name] = value]
    /\ UNCHANGED <<adapters, pc, call, sent, crypto, reply, ret, inflight, server>>

ReconfiguredNext ==
  \/ SetEnv
  \/ ValidateConfiguration
  \/ GetGatewayStats
  \/ Complete

ReconfiguredSpec == FactoryInit /\ [][ReconfiguredNext]_vars

(***************************************************************************)
(* middleware/auth.js: rateLimitByApiKey(maxRequests, windowMs).           *)
(***************************************************************************)
\* the window the middleware is created with, and the step of the clock
KeyWindowMs == 1500
HalfSecond == 500

\* Math.ceil(a / b) for a >= 0
Ceil(a, b) == (a + b - 1) \div b

\* req.apiKey || req.ip
ApiKeys == {Undefined, Str(<<"key_1">>)}
Ips == {Str(<<"10.0.0.1">>)}

\* the middleware on one request: the Map afterwards and next() or the 429
rateLimitByApiKey(limiter, apiKey, now) ==
  IF apiKey \notin DOMAIN limiter.requests
  THEN [requests |-> [k \in DOMAIN limiter.requests \cup {apiKey} |->
                        IF k = apiKey
                        THEN [count |-> 1, resetTime |-> now + limiter.windowMs]
                        ELSE limiter.requests[k]],
        status |-> "next", retryAfter |-> 0]
  ELSE LET userRequests == limiter.requests[apiKey]
           counted == IF now > userRequests.resetTime
                      THEN [count |-> 1, resetTime |-> now + limiter.windowMs]
                      ELSE [count |-> userRequests.count + 1,
                            resetTime |-> userRequests.resetTime]
           requests == [limiter.requests EXCEPT ![apiKey] = counted]
       IN  IF counted.count > limiter.maxRequests
           THEN [requests |-> requests, status |-> "429",
                 retryAfter |-> Ceil(counted.resetTime - now, 1000)]
           ELSE [requests |-> requests, status |-> "next", retryAfter |-> 0]

KeyRequest ==
  \E key \in ApiKeys, ip \in Ips :
    /\ Len(history) < MaxKeyRequests
    /\ LET apiKey == Or(key, ip)
           answer == rateLimitByApiKey(keyLimiter, apiKey, clock)
       IN  /\ keyLimiter' = [keyLimiter EXCEPT !.requests = answer.requests]
           /\ history' = Append(history, [key |-> apiKey, time |-> clock,
                                          passed |-> answer.status = "next"])
           /\ response' = [ip |-> ip, path |-> <<>>, status |-> answer.status,
                           by |-> "rateLimitByApiKey",
                           retryAfter |-> answer.retryAfter]
    /\ UNCHANGED <<env, adapters, pc, call, sent, crypto, reply, ret, inflight,
                   clock, store, received, http>>

\* half a second passes
Advance ==
  /\ clock < MaxHalfSeconds * HalfSecond
  /\ clock' = clock + HalfSecond
  /\ UNCHANGED <<env, adapters, pc, call, sent, crypto, reply, ret, inflight,
                 store, received, response, keyLimiter, history, http>>

KeyLimiterInit ==
  /\ env \in {e \in Environments :
                /\ Truthy(e.STRIPE_SECRET_KEY)
                /\ Truthy(e.PAYSTACK_SECRET_KEY)
                /\ Truthy(e.STRIPE_WEBHOOK_SECRET)}
  /\ adapters = initializeAdapters(env)
  /\ pc = "idle"
  /\ call = NoCall
  /\ sent = <<>>
  /\ crypto = 0
  /\ reply = NoReply
  /\ ret = NoRet
  /\ inflight = NoInflight
  /\ clock = 0
  /\ store = EmptyStore
  /\ received = NoneReceived
  /\ response = NoResponse
  /\ keyLimiter \in {[maxRequests |-> m, windowMs |-> KeyWindowMs,
                      requests |-> EmptyMap] : m \in 0..MaxLimit}
  /\ history = <<>>
  /\ http = NoHttp

KeyLimiterNext == KeyRequest \/ Advance

KeyLimiterSpec == KeyLimiterInit /\ [][KeyLimiterNext]_vars

(***************************************************************************)
(* routes/webhookRoutes.js: POST /stripe, /paystack and /unified.          *)
(***************************************************************************)
\* obj[k] of a parsed JSON object
RECURSIVE GetProp(_, _)
GetProp(props, k) ==
  IF Len(props) = 0 THEN Undefined
  ELSE IF props[Len(props)].k = k THEN props[Len(props)].v
  ELSE GetProp(SubSeq(props, 1, Len(props) - 1), k)

Get(obj, k) == IF obj.t = "object" THEN GetProp(obj.props, k) ELSE Undefined

\* res.status(status).json(body)
Json(status, body) == [t |-> "object", status |-> status, body |-> body]

\* a route that answers although the signature header is missing
SignatureMissing_Never(signature) == FALSE

\* if (!signature)
SignatureMissing(signature) == ~Truthy(signature)

\* if (!verification.isValid)
VerificationFailed(verification) == ~verification.isValid

\* the event bodies the providers post
StripeEvents ==
  {Object(<< Prop("type", Str(<<"payment_intent.succeeded">>)),
             Prop("data", Object(<< Prop("object",
                            Object(<< Prop("id", Str(<<"pi_test123">>)) >>)) >>)) >>),
   Object(<< Prop("type", Str(<<"payment_intent.succeeded">>)) >>),
   Object(<< Prop("type", Str(<<"customer.created">>)) >>)}

PaystackEvents ==
  {Object(<< Prop("event", Str(<<"charge.success">>)),
             Prop("data", Object(<< Prop("reference", Str(<<"ref_test123">>)) >>)) >>),
   Object(<< Prop("event", Str(<<"charge.success">>)) >>),
   Object(<< Prop("event", Str(<<"customer.created">>)) >>)}

\* the switch over the event: the property read that console.log makes raises
\* when the event of a handled type carries no data
StripeEventRaises(event, types) ==
  /\ Get(event, "type") \in {Str(<<ty>>) : ty \in types}
  /\ IsNullish(Get(Get(event, "data"), "object"))

PaystackEventRaises(event, types) ==
  /\ Get(event, "event") \in {Str(<<ty>>) : ty \in types}
  /\ IsNullish(Get(event, "data"))

\* the catch block of a webhook route
WebhookFailed(calls, error) ==
  [calls |-> calls,
   res |-> Json(400, [success |-> FALSE, error |-> <<"Webhook processing failed">>,
                      message |-> error.message])]

\* a route that answers an unsigned request as processed
NoSignature_Processed(calls) ==
  [calls |-> calls,
   res |-> Json(200, [success |-> TRUE,
                      message |-> <<"Webhook processed successfully">>])]

\* if (!signature) return res.status(400).json(...)
NoSignature(calls) ==
  [calls |-> calls,
   res |-> Json(400, [success |-> FALSE, error |-> <<"No signature provided">>])]

\* the route from the adapter's verification to the response
AfterVerification(gateway, webhookData, verified, types, unified) ==
  LET calls == << [gateway |-> gateway, method |-> "verifyWebhook",
                   arg |-> webhookData, ret |-> verified] >>
      event == IF "event" \in DOMAIN verified.value THEN verified.value.event
               ELSE Undefined
      raises == \/ IsNullish(event)
                \/ IF gateway = StripeKey THEN StripeEventRaises(event, types)
                   ELSE PaystackEventRaises(event, types)
  IN  IF verified.kind = "threw" THEN WebhookFailed(calls, verified.value)
      ELSE IF VerificationFailed(verified.value)
      THEN [calls |-> calls,
            res |-> Json(400, [success |-> FALSE,
                               error |-> <<"Invalid webhook signature">>])]
      ELSE IF raises
      THEN WebhookFailed(calls, TypeError(IF gateway = StripeKey THEN "object"
                                          ELSE "reference"))
      ELSE IF unified
      THEN [calls |-> calls,
            res |-> Json(200, [success |-> TRUE,
                               message |-> <<"Unified webhook processed successfully">>,
                               gateway |-> Get(webhookData.body, "gateway"),
                               eventType |-> Or(Get(event, "type"),
                                                Get(event, "event"))])]
      ELSE [calls |-> calls,
            res |-> Json(200, [success |-> TRUE,
                               message |-> <<"Webhook processed successfully">>,
                               eventType |-> IF gateway = StripeKey
                                             THEN Get(event, "type")
                                             ELSE Get(event, "event")])]

StripeWebhook(req, constructed) ==
  LET signature == req.headers.stripeSignature
      stripeAdapter == getGatewayCall(Str(StripeKey))
      webhookData == [t |-> "object", body |-> req.body, signature |-> signature]
  IN  IF SignatureMissing(signature) THEN NoSignature(<<>>)
      ELSE IF stripeAdapter.kind = "threw" THEN WebhookFailed(<<>>, stripeAdapter.value)
      ELSE AfterVerification(StripeKey, webhookData,
             StripeVerifyWebhookRun(stripeAdapter.value, webhookData, constructed).ret,
             {"payment_intent.succeeded", "payment_intent.payment_failed",
              "charge.refunded"}, FALSE)

PaystackWebhook(req) ==
  LET signature == req.headers.paystackSignature
      paystackAdapter == getGatewayCall(Str(PaystackKey))
      webhookData == [t |-> "object", body |-> req.body, signature |-> signature]
  IN  IF SignatureMissing(signature) THEN NoSignature(<<>>)
      ELSE IF paystackAdapter.kind = "threw"
      THEN WebhookFailed(<<>>, paystackAdapter.value)
      ELSE AfterVerification(PaystackKey, webhookData,
             PaystackVerifyWebhookRun(paystackAdapter.value, webhookData).ret,
             {"charge.success", "charge.failed", "transfer.success",
              "refund.processed"}, FALSE)

UnifiedWebhook(req, constructed) ==
  LET gateway == Get(req.body, "gateway")
      available == isGatewayAvailableCall(gateway)
      gatewayAdapter == getGatewayCall(gateway)
      signature == IF gateway = Str(StripeKey) THEN req.headers.stripeSignature
                   ELSE IF gateway = Str(PaystackKey) THEN req.headers.paystackSignature
                   ELSE Undefined
      webhookData == [t |-> "object", body |-> req.body, signature |-> signature]
  IN  IF ~Truthy(gateway)
      THEN [calls |-> <<>>,
            res |-> Json(400, [success |-> FALSE,
                               error |-> <<"Gateway parameter is required">>])]
      ELSE IF available.kind = "threw" THEN WebhookFailed(<<>>, available.value)
      ELSE IF ~available.value
      THEN [calls |-> <<>>,
            res |-> Json(400, [success |-> FALSE,
                               error |-> <<"Gateway '">> \o gateway.v
                                         \o <<"' is not supported">>])]
      ELSE IF SignatureMissing(signature) THEN NoSignature(<<>>)
      ELSE IF gateway = Str(StripeKey)
      THEN AfterVerification(StripeKey, webhookData,
             StripeVerifyWebhookRun(gatewayAdapter.value, webhookData, constructed).ret,
             {"payment_intent.succeeded", "payment_intent.payment_failed"}, TRUE)
      ELSE AfterVerification(PaystackKey, webhookData,
             PaystackVerifyWebhookRun(gatewayAdapter.value, webhookData).ret,
             {"charge.success", "charge.failed"}, TRUE)

\* the signature headers a request can carry for its body
StripeSignatures == {Undefined, Str(<<"t=1,v1=5257a869">>)}
PaystackSignatures(body) ==
  {Undefined, Str(Hmac(<<"sk_live">>, JSONStringify(body).v)), Str(<<"5257a869">>)}

WebhookHeaders(body) ==
  [stripeSignature : StripeSignatures, paystackSignature : PaystackSignatures(body)]

\* the gateway property of the body of a unified webhook
UnifiedGateways ==
  {Str(StripeKey), Str(PaystackKey), Str(<<"S", "t", "r", "i", "p", "e">>),
   Str(<<"P", "A", "Y", "S", "T", "A", "C", "K">>), Str(<<"p", "a", "y", "p", "a", "l">>)}

UnifiedBodies ==
  StripeEvents \cup PaystackEvents
  \cup {Object(<< Prop("gateway", g) >> \o e.props) :
          g \in UnifiedGateways, e \in StripeEvents \cup PaystackEvents}
  \cup {Object(<< Prop("gateway", Num(5)) >>)}

\* a route handler answers a request
Handle(req, handled) ==
  /\ http = NoHttp
  /\ http' = [req |-> req, calls |-> handled.calls, res |-> handled.res]
  /\ UNCHANGED <<env, adapters, pc, call, sent, crypto, reply, ret, inflight,
                 clock, store, received, response, keyLimiter, history>>

PostStripeWebhook ==
  \E body \in StripeEvents :
    \E headers \in WebhookHeaders(body), constructed \in ConstructEventOutcomes(body) :
      LET req == [route |-> "/api/webhooks/stripe", headers |-> headers, body |-> body]
      IN  Handle(req, StripeWebhook(req, constructed))

PostPaystackWebhook ==
  \E body \in PaystackEvents :
    \E headers \in WebhookHeaders(body) :
      LET req == [route |-> "/api/webhooks/paystack", headers |-> headers,
                  body |-> body]
      IN  Handle(req, PaystackWebhook(req))

PostUnifiedWebhook ==
  \E body \in UnifiedBodies :
    \E headers \in (IF Get(body, "gateway").t = "number"
                    THEN WebhookHeaders(Object(<<>>)) ELSE WebhookHeaders(body)),
       constructed \in ConstructEventOutcomes(body) :
      LET req == [route |-> "/api/webhooks/unified", headers |-> headers, body |-> body]
      IN  Handle(req, UnifiedWebhook(req, constructed))

\* the response is sent; the server takes the next request
Answer ==
  /\ http # NoHttp
  /\ http.res # Undefined
  /\ http' = NoHttp
  /\ pc' = "idle"
  /\ call' = NoCall
  /\ sent' = <<>>
  /\ crypto' = 0
  /\ reply' = NoReply
  /\ ret' = NoRet
  /\ UNCHANGED <<env, adapters, inflight, clock, store, received, response,
                 keyLimiter, history>>

WebhookInit ==
  /\ env \in Environments
  /\ adapters = initializeAdapters(env)
  /\ pc = "idle"
  /\ call = NoCall
  /\ sent = <<>>
  /\ crypto = 0
  /\ reply = NoReply
  /\ ret = NoRet
  /\ inflight = NoInflight
  /\ ServerStarted

WebhookNext ==
  \/ PostStripeWebhook
  \/ PostPaystackWebhook
  \/ PostUnifiedWebhook
  \/ Answer

WebhookSpec == WebhookInit /\ [][WebhookNext]_vars

(***************************************************************************)
(* routes/paymentRoutes.js: POST /process, /intent and /refund behind      *)
(* validateApiKey and the express-validator chains.                        *)
(***************************************************************************)
\* validateApiKey: the key the request carries
RequestApiKey(headers) == Or(headers.xApiKey, headers.authorization)

\* if (!apiKey)
ApiKeyMissing(apiKey) == ~Truthy(apiKey)

\* isIn(["stripe", "paystack"])
IsInGateways(value) == value \in {Str(StripeKey), Str(PaystackKey)}

\* isFloat({ min: 0.01 })
IsFloatMin(value) == value.t = "number" /\ value.v * 100 >= value.d

\* isLength({ min: 3, max: 3 })
IsLength3(value) == value.t = "string" /\ Len(value.v) = 3

\* isEmail(): one "@" after a local part, and a domain with an inner "."
IsEmail(value) ==
  /\ value.t = "string"
  /\ \E i \in 2..Len(value.v) :
       /\ value.v[i] = "@"
       /\ \A j \in 1..Len(value.v) : value.v[j] = "@" => j = i
       /\ \E j \in (i + 2)..(Len(value.v) - 1) : value.v[j] = "."

\* optional(): the chain is skipped for a field that is undefined
Optional(value, valid) == value = Undefined \/ valid

\* validationResult(req): the messages of the chains that failed
ValidationErrors(route, body) ==
  (IF IsInGateways(body.gateway) THEN <<>>
   ELSE << <<"Gateway must be stripe or paystack">> >>)
  \o (IF route = "/api/payments/refund"
      THEN (IF Optional(body.data.amount, IsFloatMin(body.data.amount)) THEN <<>>
            ELSE << <<"Amount must be greater than 0">> >>)
           \o (IF Optional(body.data.reason, body.data.reason.t = "string") THEN <<>>
               ELSE << <<"Reason must be a string">> >>)
      ELSE (IF IsFloatMin(body.data.amount) THEN <<>>
            ELSE << <<"Amount must be greater than 0">> >>)
           \o (IF IsLength3(body.data.currency) THEN <<>>
               ELSE << <<"Currency must be 3 characters">> >>)
           \o (IF Optional(body.data.customerEmail, IsEmail(body.data.customerEmail))
               THEN <<>> ELSE << <<"Invalid email format">> >>)
           \o (IF Optional(body.data.description, body.data.description.t = "string")
               THEN <<>> ELSE << <<"Description must be a string">> >>)
           \o (IF route = "/api/payments/intent"
                  \/ Optional(body.data.metadata, body.data.metadata.t = "object")
               THEN <<>> ELSE << <<"Metadata must be an object">> >>))

\* the adapter method a route calls
RouteMethod(route) ==
  CASE route = "/api/payments/process" -> "processPayment"
    [] route = "/api/payments/intent" -> "createPaymentIntent"
    [] route = "/api/payments/refund" -> "processRefund"

\* gatewayAdapter.<method>(data) up to its await
AdapterStart(gateway, method, data, t, r1, r2, r3) ==
  LET this == getGateway(gateway)
  IN  CASE gateway = StripeKey /\ method = "processPayment" ->
             StripeProcessPaymentStart(this, data, t, r1)
        [] gateway = StripeKey /\ method = "createPaymentIntent" ->
             StripeCreatePaymentIntentStart(this, data, t, r1)
        [] gateway = StripeKey /\ method = "processRefund" ->
             StripeProcessRefundStart(this, data, t, r1)
        [] gateway = PaystackKey /\ method = "processPayment" ->
             PaystackProcessPaymentStart(this, data, t, r1, r2, r3)
        [] gateway = PaystackKey /\ method = "createPaymentIntent" ->
             PaystackCreatePaymentIntentStart(this, data, t, r1, r2, r3)
        [] gateway = PaystackKey /\ method = "processRefund" ->
             PaystackProcessRefundStart(this, data, t, r1)

\* what the provider can answer the awaited call with
ProviderOutcomes(gateway, method) ==
  CASE gateway = StripeKey /\ method = "processRefund" ->
         StripeRefunds \cup StripeRejections
    [] gateway = StripeKey /\ method # "processRefund" ->
         StripePaymentIntents \cup StripeRejections
    [] gateway = PaystackKey /\ method = "processRefund" ->
         PaystackRefunded \cup PaystackFailures
    [] gateway = PaystackKey /\ method # "processRefund" ->
         PaystackInitialized \cup PaystackFailures

\* the method from its await to its return
AdapterResume(gateway, method, data, outcome, t, r) ==
  LET this == getGateway(gateway)
  IN  CASE gateway = StripeKey /\ method = "processPayment" ->
             StripeProcessPaymentResume(this, outcome, t, r)
        [] gateway = StripeKey /\ method = "createPaymentIntent" ->
             StripeCreatePaymentIntentResume(this, outcome, t, r)
        [] gateway = StripeKey /\ method = "processRefund" ->
             StripeProcessRefundResume(this, outcome, t, r)
        [] gateway = PaystackKey /\ method = "processPayment" ->
             PaystackProcessPaymentResume(this, data, outcome, t, r)
        [] gateway = PaystackKey /\ method = "createPaymentIntent" ->
             PaystackCreatePaymentIntentResume(this, data, outcome, t, r)
        [] gateway = PaystackKey /\ method = "processRefund" ->
             PaystackProcessRefundResume(this, outcome, t, r)

\* the route after `await gatewayAdapter.<method>(data)`: the result's
\* success picks the status; a rejected promise lands in the catch block
RouteResponse(completion) ==
  IF completion.kind = "threw"
  THEN Json(500, [success |-> FALSE, error |-> <<"Internal server error">>,
                  message |-> completion.value.message])
  ELSE IF completion.value.success THEN Json(200, completion.value)
  ELSE Json(400, completion.value)

\* the stages a request fails before an adapter is reached; "passed" otherwise
Refusal(req) ==
  IF ApiKeyMissing(RequestApiKey(req.headers))
  THEN Json(401, [success |-> FALSE, error |-> <<"API key is required">>])
  ELSE IF ValidationErrors(req.route, req.body) # <<>>
  THEN Json(400, [success |-> FALSE, error |-> <<"Validation failed">>,
                  details |-> ValidationErrors(req.route, req.body)])
  ELSE IF ~isGatewayAvailable(req.body.gateway.v)
  THEN Json(400, [success |-> FALSE,
                  error |-> <<"Gateway '">> \o req.body.gateway.v
                            \o <<"' is not available or not configured">>])
  ELSE Undefined

\* the requests a client sends
RouteEmails ==
  {Undefined, Str(<<"a", "@", "b", ".", "c", "o">>), Str(<<"n", "o", "p", "e">>)}

RouteBodies(route) ==
  IF route = "/api/payments/refund"
  THEN {RefundObject(pi, ref, a, Undefined) :
          pi \in {Undefined, Str(<<"pi_1">>)}, ref \in {Undefined, Str(<<"ref_1">>)},
          a \in {Undefined, Num(0), Num(50)}}
  ELSE {PaymentObject(a, c, pm, Undefined, em, Undefined) :
          a \in {Undefined, Num(0), Num(50)},
          c \in {Undefined, Str(<<"U", "S", "D">>), Str(<<"U", "S">>)},
          pm \in {Undefined, Str(<<"pm_1">>)}, em \in RouteEmails}

RouteGateways ==
  {Undefined, Str(StripeKey), Str(PaystackKey), Str(<<"S", "t", "r", "i", "p", "e">>),
   Str(<<"p", "a", "y", "p", "a", "l">>)}

RouteHeaders ==
  [xApiKey : {Undefined, Str(<<"key_1">>)},
   authorization : {Undefined, Str(<<"Bearer key_2">>)}]

RouteRequests ==
  UNION {[route : {route}, headers : RouteHeaders,
          body : [gateway : RouteGateways, data : RouteBodies(route)]] :
           route \in {"/api/payments/process", "/api/payments/intent",
                      "/api/payments/refund"}}

\* a request is refused by a stage before the adapter
RefusePayment ==
  \E req \in RouteRequests :
    /\ http = NoHttp
    /\ Refusal(req) # Undefined
    /\ http' = [req |-> req, calls |-> <<>>, res |-> Refusal(req)]
    /\ UNCHANGED <<env, adapters, pc, call, sent, crypto, reply, ret, inflight,
                   clock, store, received, response, keyLimiter, history>>

\* a request passes every stage: the adapter method runs up to its await
PostPayment ==
  \E req \in RouteRequests, t \in Times, r1, r2, r3 \in Rands :
    /\ http = NoHttp
    /\ pc = "idle"
    /\ Refusal(req) = Undefined
    /\ LET gateway == toLowerCase(req.body.gateway.v)
           method == RouteMethod(req.route)
           start == AdapterStart(gateway, method, req.body.data, t, r1, r2, r3)
       IN  /\ call' = [gateway |-> gateway, method |-> method, arg |-> req.body.data]
           /\ crypto' = start.crypto
           /\ reply' = NoReply
           /\ IF start.done
              THEN /\ pc' = "done"
                   /\ sent' = <<>>
                   /\ ret' = start.ret
                   /\ http' = [req |-> req, calls |-> <<>>,
                               res |-> RouteResponse(start.ret)]
              ELSE /\ pc' = "awaiting"
                   /\ sent' = <<start.request>>
                   /\ ret' = NoRet
                   /\ http' = [req |-> req, calls |-> <<>>, res |-> Undefined]
    /\ UNCHANGED <<env, adapters, inflight, clock, store, received, response,
                   keyLimiter, history>>

\* the provider answers; the method returns and the route responds
PaymentSettled ==
  /\ http # NoHttp
  /\ pc = "awaiting"
  /\ \E outcome \in ProviderOutcomes(call.gateway, call.method),
        t \in Times, r \in Rands :
       LET completion == AdapterResume(call.gateway, call.method, call.arg,
                                       outcome, t, r)
       IN  /\ pc' = "done"
           /\ reply' = outcome
           /\ ret' = completion
           /\ http' = [http EXCEPT !.res = RouteResponse(completion)]
  /\ UNCHANGED <<env, adapters, call, sent, crypto, inflight, clock, store,
                 received, response, keyLimiter, history>>

\* either, both or neither gateway registered
RouteEnvironments ==
  {e \in Environments :
     /\ e.STRIPE_WEBHOOK_SECRET = Undefined
     /\ e.STRIPE_SECRET_KEY # Str(<<>>)
     /\ e.PAYSTACK_SECRET_KEY # Str(<<>>)}

PaymentRouteInit ==
  /\ env \in RouteEnvironments
  /\ adapters = initializeAdapters(env)
  /\ pc = "idle"
  /\ call = NoCall
  /\ sent = <<>>
  /\ crypto = 0
  /\ reply = NoReply
  /\ ret = NoRet
  /\ inflight = NoInflight
  /\ ServerStarted

PaymentRouteNext ==
  \/ RefusePayment
  \/ PostPayment
  \/ PaymentSettled
  \/ Answer

PaymentRouteSpec == PaymentRouteInit /\ [][PaymentRouteNext]_vars

(***************************************************************************)
(* Properties.                                                             *)
(***************************************************************************)
PaymentOps == {"processPayment", "createPaymentIntent"}
AdapterOps == PaymentOps \cup {"processRefund", "getPaymentStatus"}

Started == pc \in {"awaiting", "done"}
IsObject(v) == v.t = "object"
Absent(v) == v.t = "undefined"
AbsentOrEmpty(v) == v.t = "undefined" \/ (v.t = "string" /\ v.v = <<>>)

ReturnedError == ret.kind = "returned" /\ ret.value.success = FALSE
ReturnedSuccess == ret.kind = "returned" /\ ret.value.success = TRUE

\* the amount is absent, zero or negative, or the currency is absent
InvalidPayment(d) ==
  \/ Absent(d.amount)
  \/ d.amount.t = "number" /\ d.amount.v <= 0
  \/ Absent(d.currency)

ValidPayment(d) ==
  /\ d.amount.t = "number" /\ d.amount.v > 0
  /\ d.currency.t = "string" /\ d.currency.v # <<>>

\* C1: on both adapters a processPayment or createPaymentIntent whose request
\* has an absent, zero or negative amount or an absent currency returns a
\* UnifiedError and makes no provider call, whatever else the request carries.
C1_InvalidPaymentMakesNoProviderCall ==
  (Started /\ call.method \in PaymentOps /\ IsObject(call.arg)
     /\ InvalidPayment(call.arg))
  => (pc = "done" /\ ReturnedError /\ sent = <<>> /\ reply = NoReply)

C1_Witness ==
  /\ pc = "done" /\ call.method = "createPaymentIntent" /\ call.gateway = StripeKey
  /\ IsObject(call.arg) /\ call.arg.amount = Num(0 - 1)
  /\ call.arg.paymentMethodId = Str(<<"pm_1">>)
  /\ call.arg.customerEmail = Str(<<"a@b.co">>)
  /\ ReturnedError /\ sent = <<>>

UnifiedResponseShape(v) ==
  /\ DOMAIN v = {"success", "gateway", "gatewayResponse", "timestamp", "unifiedId"}
  /\ v.success = TRUE
  /\ v.timestamp.t = "string" /\ v.unifiedId.t = "string"

UnifiedErrorShape(v) ==
  /\ DOMAIN v = {"success", "gateway", "error", "timestamp", "unifiedId"}
  /\ v.success = FALSE
  /\ v.error.message.t = "string" /\ v.error.code.t = "string"
  /\ v.timestamp.t = "string" /\ v.unifiedId.t = "string"

\* C2: every processPayment, createPaymentIntent, processRefund and
\* getPaymentStatus, for every input and every provider outcome, completes by
\* returning a UnifiedResponse or a UnifiedError; no exception escapes.
C2_NoExceptionEscapes ==
  (pc = "done" /\ call.method \in AdapterOps)
  => /\ ret.kind = "returned"
     /\ UnifiedResponseShape(ret.value) \/ UnifiedErrorShape(ret.value)

\* C3: verifyWebhook never raises and always returns a result with isValid;
\* with the signature absent or empty the result is isValid = false and no
\* signature computation (Stripe utility, HMAC) has been made.
C3_VerifyWebhookNeverRaises ==
  (pc = "done" /\ call.method = "verifyWebhook")
  => /\ ret.kind = "returned"
     /\ ret.value.isValid \in BOOLEAN
     /\ (IsObject(call.arg) /\ AbsentOrEmpty(call.arg.signature))
        => (ret.value.isValid = FALSE /\ crypto = 0)
     /\ ~IsObject(call.arg) => (ret.value.isValid = FALSE /\ crypto = 0)

C3_Witness ==
  /\ pc = "done" /\ call.method = "verifyWebhook" /\ call.gateway = StripeKey
  /\ IsObject(call.arg) /\ call.arg.signature = Str(<<>>)
  /\ call.arg.body # Undefined
  /\ ret.kind = "returned" /\ ret.value.isValid = FALSE /\ crypto = 0

\* the signature Paystack computes for a body: H(secretKey, serialize(body))
ExpectedSignature(body) ==
  Str(<<"hmac-sha512(">> \o adapters[PaystackKey].secretKey.v \o <<"|">>
      \o JSONStringify(body).v \o <<")">>)

\* C4: Paystack verifyWebhook returns isValid = true, with event = body,
\* exactly when the signature equals H(secretKey, serialize(body)); for any
\* other signature it returns isValid = false and raises nothing.
C4_PaystackSignatureIff ==
  (pc = "done" /\ call.method = "verifyWebhook" /\ call.gateway = PaystackKey
     /\ IsObject(call.arg))
  => /\ ret.kind = "returned"
     /\ ret.value.isValid
        <=> (/\ JSONStringify(call.arg.body).t = "string"
             /\ call.arg.signature = ExpectedSignature(call.arg.body))
     /\ ret.value.isValid => ret.value.event = call.arg.body

C4_Witness ==
  /\ pc = "done" /\ call.method = "verifyWebhook" /\ call.gateway = PaystackKey
  /\ IsObject(call.arg) /\ IsObject(call.arg.body)
  /\ call.arg.signature = ExpectedSignature(call.arg.body)
  /\ ret.kind = "returned" /\ ret.value.isValid = TRUE
  /\ ret.value.event = call.arg.body

\* the invocation ended on a local check of its argument, before any provider
\* call
LocalValidationFailure ==
  /\ pc = "done" /\ call.method \in AdapterOps /\ sent = <<>>
  /\ IsObject(call.arg) \/ call.method = "getPaymentStatus"
  /\ ReturnedError

\* C5: every UnifiedError returned for a local, pre-network validation
\* failure carries error.code = VALIDATION_ERROR.
C5_LocalFailureIsValidationError ==
  LocalValidationFailure => ret.value.error.code = Str(<<"VALIDATION_ERROR">>)

\* C6: the gateway field of every envelope an adapter returns equals the name
\* under which the adapter is registered in the factory.
C6_GatewayFieldIsRegisteredName ==
  (pc = "done" /\ call.method \in AdapterOps /\ ret.kind = "returned")
  => ret.value.gateway = Str(call.gateway)

\* the provider failed the call with an error that has a message
ProviderError ==
  IF call.gateway = StripeKey
  THEN IF reply.settled = "rejected" /\ IsObject(reply.reason)
       THEN reply.reason ELSE Undefined
  ELSE IF reply.kind = "rejected" /\ IsObject(reply.reason) THEN reply.reason
  ELSE IF reply.kind = "response" /\ reply.json.settled = "rejected"
  THEN reply.json.reason
  ELSE IF reply.kind = "response" /\ ~reply.ok /\ reply.json.value.message.t = "string"
  THEN reply.json.value
  ELSE Undefined

ProviderFailed ==
  pc = "done" /\ call.method \in AdapterOps /\ Len(sent) = 1 /\ IsObject(ProviderError)

UnknownError == Str(<<"UNKNOWN_ERROR">>)

IsHundredthOf(x, y) == x.t = "number" /\ x.v * 100 * y.d = y.v * x.d

IsLowerCased(s, t) ==
  /\ Len(s) = Len(t)
  /\ \A i \in 1..Len(s) :
       /\ \A j \in 1..26 : s[i] # Upper[j]
       /\ \/ s[i] = t[i]
          \/ \E j \in 1..26 : t[i] = Upper[j] /\ s[i] = Lower[j]

\* C9: for a valid request Stripe processPayment makes exactly one SDK call:
\* create with confirm = true when paymentMethodId is present (even with a
\* paymentIntentId), else confirm of the intent when paymentIntentId is
\* present, else create without confirm; the creates carry the lower-cased
\* currency and the amount unchanged.
C9_StripeBranchPriority ==
  (Started /\ call.gateway = StripeKey /\ call.method = "processPayment"
     /\ IsObject(call.arg) /\ ValidPayment(call.arg))
  => /\ Len(sent) = 1
     /\ IF ~AbsentOrEmpty(call.arg.paymentMethodId)
        THEN /\ sent[1].api = "paymentIntents.create"
             /\ "confirm" \in DOMAIN sent[1] /\ sent[1].confirm = TRUE
             /\ sent[1].payment_method = call.arg.paymentMethodId
        ELSE IF ~AbsentOrEmpty(call.arg.paymentIntentId)
        THEN /\ sent[1].api = "paymentIntents.confirm"
             /\ sent[1].id = call.arg.paymentIntentId
        ELSE /\ sent[1].api = "paymentIntents.create"
             /\ "confirm" \notin DOMAIN sent[1]
             /\ "payment_method" \notin DOMAIN sent[1]
     /\ sent[1].api = "paymentIntents.create"
        => /\ sent[1].amount = call.arg.amount
           /\ IsLowerCased(sent[1].currency.v, call.arg.currency.v)

C9_Witness ==
  /\ pc = "done" /\ call.gateway = StripeKey /\ call.method = "processPayment"
  /\ IsObject(call.arg) /\ call.arg.amount = Num(50)
  /\ call.arg.paymentMethodId = Str(<<"pm_1">>)
  /\ call.arg.paymentIntentId = Str(<<"pi_1">>)
  /\ call.arg.currency = Str(<<"U", "S", "D">>)
  /\ Len(sent) = 1 /\ sent[1].api = "paymentIntents.create" /\ sent[1].confirm = TRUE
  /\ sent[1].currency = Str(<<"u", "s", "d">>) /\ sent[1].amount = Num(50)

RequiredTexts ==
  {" is required for refunds", " is required for Paystack refunds",
   " is required for Paystack payments", " is required for Paystack payment intents"}

\* the message says that the field is required
NamesAsRequired(message, field) ==
  /\ message.t = "string" /\ Len(message.v) = 2
  /\ message.v[1] = field /\ message.v[2] \in RequiredTexts

\* C10: Stripe processRefund without paymentIntentId, Paystack processRefund
\* without transactionReference and Paystack processPayment and
\* createPaymentIntent without customerEmail return a UnifiedError and make no
\* provider call; the message names the missing field as required (for
\* customerEmail, in a request that passes the shared validation, which is
\* checked first).
C10_ProviderFieldsCheckedLocally ==
  (Started /\ call.method \in AdapterOps /\ IsObject(call.arg))
  => /\ (call.gateway = StripeKey /\ call.method = "processRefund"
           /\ AbsentOrEmpty(call.arg.paymentIntentId))
        => /\ pc = "done" /\ ReturnedError /\ sent = <<>>
           /\ NamesAsRequired(ret.value.error.message, "paymentIntentId")
     /\ (call.gateway = PaystackKey /\ call.method = "processRefund"
           /\ AbsentOrEmpty(call.arg.transactionReference))
        => /\ pc = "done" /\ ReturnedError /\ sent = <<>>
           /\ NamesAsRequired(ret.value.error.message, "transactionReference")
     /\ (call.gateway = PaystackKey /\ call.method \in PaymentOps
           /\ AbsentOrEmpty(call.arg.customerEmail))
        => /\ pc = "done" /\ ReturnedError /\ sent = <<>>
           /\ ValidPayment(call.arg)
              => NamesAsRequired(ret.value.error.message, "customerEmail")

C10_Witness ==
  /\ pc = "done" /\ call.gateway = PaystackKey /\ call.method = "processPayment"
  /\ IsObject(call.arg) /\ ValidPayment(call.arg) /\ Absent(call.arg.customerEmail)
  /\ ReturnedError /\ sent = <<>>
  /\ ret.value.error.message =
       Str(<<"customerEmail", " is required for Paystack payments">>)

\* the amount a refund call hands to the provider, undefined when it hands none
ForwardedRefundAmount ==
  IF call.gateway = StripeKey THEN sent[1].amount
  ELSE IF "amount" \in DOMAIN sent[1].body THEN sent[1].body.amount
  ELSE Undefined

\* C11: on both adapters processRefund with a valid reference forwards an
\* amount to the provider exactly when the refund request carries one, and
\* forwards none exactly when the request omits it; a request that carries
\* amount 0 is not turned into a full refund.
C11_RefundAmountForwardedIffCarried ==
  (Started /\ call.method = "processRefund" /\ IsObject(call.arg) /\ Len(sent) = 1)
  => (call.arg.amount.t = "number" <=> ForwardedRefundAmount.t = "number")

\* the awaited provider call failed: a rejection, an unreadable body or an
\* error response
ProviderCallFailed ==
  IF call.gateway = StripeKey THEN reply.settled = "rejected"
  ELSE \/ reply.kind = "rejected"
       \/ reply.kind = "response" /\ (reply.json.settled = "rejected" \/ ~reply.ok)

\* C19: every invocation of an adapter operation makes at most one provider
\* call, and when that call fails the same invocation returns a UnifiedError,
\* with no second attempt.
C19_AtMostOneCallNoRetry ==
  (Started /\ call.method \in AdapterOps)
  => /\ Len(sent) <= 1
     /\ (pc = "done" /\ Len(sent) = 1 /\ ProviderCallFailed)
        => (ReturnedError /\ UnifiedErrorShape(ret.value))

FactoryDone(method) == pc = "done" /\ call.method = method

NonEmptyString(v) == v.t = "string" /\ Len(v.v) > 0

\* C12: after construction an adapter is registered under "stripe" (resp.
\* "paystack") exactly when the corresponding secret key is present and
\* non-empty, whatever the optional keys are, and construction raises nothing.
C12_RegisteredIffSecretKey ==
  /\ (StripeKey \in DOMAIN adapters) <=> NonEmptyString(env.STRIPE_SECRET_KEY)
  /\ (PaystackKey \in DOMAIN adapters) <=> NonEmptyString(env.PAYSTACK_SECRET_KEY)
  /\ DOMAIN adapters \subseteq {StripeKey, PaystackKey}

C12_Witness ==
  /\ env.STRIPE_SECRET_KEY = Str(<<>>)
  /\ env.STRIPE_PUBLISHABLE_KEY.t = "string"
  /\ env.STRIPE_WEBHOOK_SECRET.t = "string"
  /\ env.PAYSTACK_SECRET_KEY.t = "string"
  /\ env.PAYSTACK_PUBLIC_KEY = Undefined
  /\ DOMAIN adapters = {PaystackKey}

\* C13: for a name string in any letter case, isGatewayAvailable(name) is true
\* exactly when getGateway(name) returns an adapter, which is the one registered
\* under the lower-cased name; otherwise getGateway fails with the
\* "Unsupported payment gateway" error.
C13_AvailableIffGetGatewayReturns ==
  /\ (FactoryDone("isGatewayAvailable") /\ call.arg.t = "string")
     => /\ ret.kind = "returned"
        /\ ret.value = (getGatewayCall(call.arg).kind = "returned")
  /\ (FactoryDone("getGateway") /\ call.arg.t = "string")
     => /\ (ret.kind = "returned") <=> isGatewayAvailableCall(call.arg).value
        /\ ret.kind = "returned" => ret.value = adapters[toLowerCase(call.arg.v)]
        /\ ret.kind = "threw"
           => ret.value.message = Str(<<"Unsupported payment gateway: ">> \o call.arg.v)

C13_Witness ==
  /\ FactoryDone("getGateway")
  /\ call.arg = Str(<<"S", "t", "r", "i", "p", "e">>)
  /\ ret.kind = "returned"
  /\ StripeKey \in DOMAIN adapters

\* C14: isGatewayAvailable never raises and returns a boolean for every value
\* of the name, absent and non-string names included.
C14_IsGatewayAvailableNeverRaises ==
  FactoryDone("isGatewayAvailable")
  => (ret.kind = "returned" /\ ret.value \in BOOLEAN)

MissingKeys ==
  (IF ~NonEmptyString(env.STRIPE_SECRET_KEY) THEN {"STRIPE_SECRET_KEY"} ELSE {})
  \cup (IF ~NonEmptyString(env.PAYSTACK_SECRET_KEY) THEN {"PAYSTACK_SECRET_KEY"} ELSE {})

Names(warning) == {warning[i] : i \in 1..Len(warning)}

WarningsNameMissingKeys(warnings) ==
  /\ \A key \in MissingKeys : \E i \in 1..Len(warnings) : key \in Names(warnings[i])
  /\ \A key \in {"STRIPE_SECRET_KEY", "PAYSTACK_SECRET_KEY"} \ MissingKeys :
       \A i \in 1..Len(warnings) : key \notin Names(warnings[i])
  /\ MissingKeys # {} => Len(warnings) = Cardinality(MissingKeys)

\* C15: totalGateways equals the number of registered adapters and the length
\* of availableGateways; the warnings hold one entry naming each missing secret
\* key; with only Stripe configured totalGateways is 1, "paystack" is not
\* available and the warnings name PAYSTACK_SECRET_KEY.
C15_StatsCountRegistered ==
  /\ FactoryDone("getGatewayStats")
     => /\ ret.value.totalGateways = Cardinality(DOMAIN adapters)
        /\ ret.value.totalGateways = Len(ret.value.availableGateways)
        /\ WarningsNameMissingKeys(ret.value.configurationStatus.warnings)
        /\ DOMAIN adapters = {StripeKey}
           => /\ ret.value.totalGateways = 1
              /\ ~isGatewayAvailableCall(Str(PaystackKey)).value
  /\ FactoryDone("validateConfiguration")
     => /\ WarningsNameMissingKeys(ret.value.warnings)
        /\ Len(ret.value.availableGateways) = Cardinality(DOMAIN adapters)

C15_Witness ==
  /\ FactoryDone("getGatewayStats")
  /\ DOMAIN adapters = {StripeKey}
  /\ ret.value.totalGateways = 1
  /\ Len(ret.value.configurationStatus.warnings) = 1
  /\ "PAYSTACK_SECRET_KEY" \in Names(ret.value.configurationStatus.warnings[1])

AlwaysReturns == {"getAllGatewayCapabilities", "validateConfiguration", "getGatewayStats"}

\* C16: validateConfiguration reports no errors and isValid = true for every
\* configuration, the one without gateways included, and the other factory
\* operations answer whatever the validation says.
C16_ValidationNeverReportsErrors ==
  /\ FactoryDone("validateConfiguration")
     => (ret.value.errors = <<>> /\ ret.value.isValid = TRUE)
  /\ FactoryDone("getGatewayStats")
     => /\ ret.value.configurationStatus.errors = <<>>
        /\ ret.value.configurationStatus.isValid = TRUE
  /\ (pc = "done" /\ call.method \in AlwaysReturns) => ret.kind = "returned"
  /\ (pc = "done" /\ call.method \in {"getGateway", "getGatewayCapabilities"}
      /\ call.arg.t = "string" /\ toLowerCase(call.arg.v) \in DOMAIN adapters)
     => ret.kind = "returned"

C16_Witness ==
  /\ FactoryDone("validateConfiguration")
  /\ DOMAIN adapters = {}
  /\ ret.value.isValid = TRUE
  /\ Len(ret.value.warnings) = 2

StaticLists(key) ==
  IF key = StripeKey
  THEN [currencies |-> StripeSupportedCurrencies,
        methods |-> StripeSupportedPaymentMethods]
  ELSE [currencies |-> PaystackSupportedCurrencies,
        methods |-> PaystackSupportedPaymentMethods]

CapabilitiesOf(capabilities, key) ==
  /\ capabilities.name.t = "string"
  /\ toLowerCase(capabilities.name.v) = key
  /\ capabilities.supportedCurrencies = StaticLists(key).currencies
  /\ capabilities.supportedPaymentMethods = StaticLists(key).methods
  /\ Len(capabilities.supportedCurrencies) > 0
  /\ Len(capabilities.supportedPaymentMethods) > 0
  /\ capabilities.features = [refunds |-> TRUE, webhooks |-> TRUE,
                              paymentIntents |-> TRUE, statusChecking |-> TRUE]

\* C17: getGatewayCapabilities of a registered gateway returns its name, its
\* adapter's non-empty static currency and payment-method lists and the four
\* features all true; getAllGatewayCapabilities holds exactly one such entry
\* per registered gateway.
C17_CapabilitiesMatchStaticLists ==
  /\ (FactoryDone("getGatewayCapabilities") /\ call.arg.t = "string")
     => IF toLowerCase(call.arg.v) \in DOMAIN adapters
        THEN /\ ret.kind = "returned"
             /\ ret.value.name = call.arg
             /\ CapabilitiesOf(ret.value, toLowerCase(call.arg.v))
        ELSE ret.kind = "threw"
  /\ FactoryDone("getAllGatewayCapabilities")
     => /\ ret.kind = "returned"
        /\ DOMAIN ret.value = DOMAIN adapters
        /\ \A key \in DOMAIN adapters :
             /\ ret.value[key].name = Str(key)
             /\ CapabilitiesOf(ret.value[key], key)

C17_Witness ==
  /\ FactoryDone("getAllGatewayCapabilities")
  /\ DOMAIN adapters = {StripeKey, PaystackKey}
  /\ DOMAIN ret.value = {StripeKey, PaystackKey}
  /\ ret.value[PaystackKey].supportedPaymentMethods = PaystackSupportedPaymentMethods

\* the requests to the payment endpoints that the client of the last request
\* has sent in the current minute
PaymentRequestsThisMinute ==
  Sum([path \in Paths |->
        IF MountMatches(PaymentRoutes, path) THEN received[response.ip][path] ELSE 0],
      Paths)

\* C20: once a client IP has sent more than 10 requests to /api/payments/*
\* within one minute, its requests beyond the tenth in that minute are
\* answered with status 429.
C20_PaymentsLimitedToTenPerMinute ==
  (/\ response.status # "none"
   /\ MountMatches(PaymentRoutes, response.path)
   /\ PaymentRequestsThisMinute > PaymentMax)
  => response.status = "429"

\* the Paystack adapter as the factory constructed it
ConstructedPaystack == initializeAdapters(env)[PaystackKey]

\* C18: no operation changes the registry or an adapter's fields after
\* construction, and under every interleaving each concurrent invocation's
\* provider request is the one built from its own input and its envelope the
\* one built from its own input and its own provider response.
C18_InvocationsIndependent ==
  /\ adapters = initializeAdapters(env)
  /\ \A s \in Slots :
       LET i == inflight[s]
       IN  /\ Len(i.sent) <= 1
           /\ Len(i.sent) = 1
              => \E t \in Times, r \in SlotRands :
                   i.sent[1] = PaystackProcessPaymentStart(ConstructedPaystack,
                                 i.call.arg, t, r, r, r).request
           /\ (i.pc = "done" /\ Len(i.sent) = 1)
              => \E t \in Times, r \in SlotRands :
                   i.ret = PaystackProcessPaymentResume(ConstructedPaystack,
                             i.call.arg, i.reply, t, r)

C18_Witness ==
  /\ inflight[1].pc = "done"
  /\ Len(inflight[1].sent) = 1
  /\ inflight[2].pc = "settled"
  /\ inflight[2].reply = reply
  /\ inflight[1].reply # inflight[2].reply
  /\ inflight[1].call.arg # inflight[2].call.arg

\* the metadata of the provider request, as a mapping from key to value
SentMetadata ==
  IF call.gateway = StripeKey THEN sent[1].metadata
  ELSE sent[1].body.metadata.props

GeneratedIds ==
  {Str(generateUnifiedId(getGateway(call.gateway), t, r)) : t \in Times, r \in Rands}

CarriesMetadata ==
  /\ Started
  /\ call.method \in PaymentOps
  /\ IsObject(call.arg)
  /\ Len(sent) = 1
  /\ IF call.gateway = StripeKey THEN "metadata" \in DOMAIN sent[1]
     ELSE "metadata" \in DOMAIN sent[1].body

\* C27: whatever metadata the caller supplies, the metadata sent to the
\* provider carries the unified_payment_id the adapter generated for the call
\* and the request's customerEmail as customer_email.
C27_CallerMetadataCannotReplaceIds ==
  CarriesMetadata
  => /\ SentMetadata.unified_payment_id \in GeneratedIds
     /\ SentMetadata.customer_email = call.arg.customerEmail

\* C28: within one successful Paystack processPayment or createPaymentIntent
\* call the reference sent to the provider, the unified_payment_id of the
\* provider metadata and the unifiedId of the returned envelope are one value.
C28_OneUnifiedIdPerCall ==
  (/\ pc = "done"
   /\ call.gateway = PaystackKey
   /\ call.method \in PaymentOps
   /\ IsObject(call.arg)
   /\ call.arg.metadata = Undefined
   /\ Len(sent) = 1
   /\ ReturnedSuccess)
  => /\ sent[1].body.reference = sent[1].body.metadata.props.unified_payment_id
     /\ sent[1].body.reference = ret.value.unifiedId

\* two transaction-initialize requests that differ at most in the generated ids
SameUpToIds(a, b) ==
  /\ a.url = b.url
  /\ a.method = b.method
  /\ a.headers = b.headers
  /\ DOMAIN a.body = DOMAIN b.body
  /\ \A k \in (DOMAIN a.body \cap DOMAIN b.body) \ {"reference", "metadata"} :
       a.body[k] = b.body[k]

\* what processPayment does with the argument of the call in progress
AsProcessPayment ==
  LET t == CHOOSE x \in Times : TRUE
      r == CHOOSE x \in Rands : TRUE
  IN  PaystackProcessPaymentStart(getGateway(PaystackKey), call.arg, t, r, r, r)

\* C29: on the Paystack adapter createPaymentIntent accepts exactly the inputs
\* processPayment accepts and sends the same transaction-initialize request up
\* to the generated ids, a channel included as channels = [channel].
C29_IntentSameAsPayment ==
  (/\ Started
   /\ call.gateway = PaystackKey
   /\ call.method = "createPaymentIntent"
   /\ IsObject(call.arg))
  => /\ (Len(sent) = 1) <=> ~AsProcessPayment.done
     /\ Len(sent) = 1 => SameUpToIds(sent[1], AsProcessPayment.request)

SecretKeyOf(gateway) ==
  IF gateway = StripeKey THEN "STRIPE_SECRET_KEY" ELSE "PAYSTACK_SECRET_KEY"

Listed(gateways) == {gateways[i] : i \in 1..Len(gateways)}

SelfConsistent(status) ==
  /\ \A gateway \in {StripeKey, PaystackKey} :
       (gateway \in Listed(status.availableGateways))
       <=> ~\E i \in 1..Len(status.warnings) :
              SecretKeyOf(gateway) \in Names(status.warnings[i])
  /\ (\E i \in 1..Len(status.warnings) :
        status.warnings[i] = <<"All supported gateways are configured">>)
     => Listed(status.availableGateways) = {StripeKey, PaystackKey}

\* C30: whenever the secret keys in the environment change after the factory
\* is constructed, each result of validateConfiguration and getGatewayStats
\* lists a gateway as available exactly when no warning reports it as not
\* configured, and says all gateways are configured only when both are listed.
C30_ConfigurationReportSelfConsistent ==
  /\ FactoryDone("validateConfiguration") => SelfConsistent(ret.value)
  /\ FactoryDone("getGatewayStats") => SelfConsistent(ret.value.configurationStatus)

\* the requests of a key that were passed on at a time from..to
PassedIn(key, from, to) ==
  Cardinality({i \in 1..Len(history) :
                 /\ history[i].key = key
                 /\ history[i].passed
                 /\ from <= history[i].time
                 /\ history[i].time <= to})

AnsweredSince(key, from) ==
  Cardinality({i \in 1..Len(history) : history[i].key = key /\ from <= history[i].time})

\* C21: within one window of a key, from the request that starts it until its
\* resetTime, at most maxRequests requests are passed on; a rejected request is
\* answered 429 with a positive retryAfter, the remaining window time in
\* seconds rounded up; a request after resetTime starts a window with the
\* count reset.
C21_AtMostMaxPerWindow ==
  /\ \A key \in DOMAIN keyLimiter.requests :
       LET window == keyLimiter.requests[key]
           start == window.resetTime - keyLimiter.windowMs
       IN  /\ PassedIn(key, start, window.resetTime) <= keyLimiter.maxRequests
           /\ window.count = AnsweredSince(key, start)
  /\ (Len(history) > 0 /\ ~history[Len(history)].passed)
     => LET last == history[Len(history)]
            window == keyLimiter.requests[last.key]
        IN  /\ response.status = "429"
            /\ response.retryAfter > 0
            /\ response.retryAfter = Ceil(window.resetTime - last.time, 1000)

\* C22: for every key and every interval of length windowMs, wherever it
\* starts, the requests of the key passed on within it never exceed maxRequests.
C22_SlidingWindow ==
  keyLimiter.maxRequests >= 1
  => \A i \in 1..Len(history) :
       PassedIn(history[i].key, history[i].time,
                history[i].time + keyLimiter.windowMs - 1) <= keyLimiter.maxRequests

(***************************************************************************)
(* Webhook routes.                                                         *)
(***************************************************************************)
WebhookRoutes ==
  {"/api/webhooks/stripe", "/api/webhooks/paystack", "/api/webhooks/unified"}

WebhookAnswered == http # NoHttp /\ http.req.route \in WebhookRoutes

\* the provider a webhook request selects: by its route, or by the gateway
\* property of a unified request
ProviderOf(req) ==
  IF req.route = "/api/webhooks/stripe" THEN StripeKey
  ELSE IF req.route = "/api/webhooks/paystack" THEN PaystackKey
  ELSE LET gateway == Get(req.body, "gateway")
       IN  IF gateway.t = "string" THEN toLowerCase(gateway.v) ELSE <<>>

\* the signature header of the provider the request selects
ProviderSignature(req) ==
  IF ProviderOf(req) = StripeKey THEN req.headers.stripeSignature
  ELSE IF ProviderOf(req) = PaystackKey THEN req.headers.paystackSignature
  ELSE Undefined

VerifiedBy(gateway) ==
  /\ Len(http.calls) = 1
  /\ http.calls[1].method = "verifyWebhook"
  /\ http.calls[1].gateway = gateway
  /\ http.calls[1].arg.body = http.req.body
  /\ http.calls[1].ret.kind = "returned"
  /\ http.calls[1].ret.value.isValid

Rejected400 == http.res.status = 400 /\ http.res.body.success = FALSE

UnsignedEvent ==
  /\ http # NoHttp
  /\ http.req.route \in {"/api/webhooks/stripe", "/api/webhooks/paystack"}
  /\ http.req.headers.stripeSignature = Undefined
  /\ http.req.headers.paystackSignature = Undefined
  /\ \/ Get(http.req.body, "type") = Str(<<"payment_intent.succeeded">>)
     \/ Get(http.req.body, "event") = Str(<<"charge.success">>)

C26_SignatureReadForAnyCase ==
  (/\ http # NoHttp
   /\ http.req.route = "/api/webhooks/unified"
   /\ Get(http.req.body, "gateway").t = "string"
   /\ isGatewayAvailable(Get(http.req.body, "gateway").v)
   /\ Truthy(ProviderSignature(http.req)))
    => /\ Len(http.calls) = 1
       /\ http.calls[1].arg.signature = ProviderSignature(http.req)
       /\ ~(/\ http.res.status = 400
            /\ http.res.body.error = <<"No signature provided">>)

(***************************************************************************)
(* Payment routes.                                                         *)
(***************************************************************************)
PaymentAnswered ==
  /\ http # NoHttp
  /\ http.req.route \in {"/api/payments/process", "/api/payments/intent",
                         "/api/payments/refund"}

HasApiKey(req) == Truthy(req.headers.xApiKey) \/ Truthy(req.headers.authorization)
BodyValid(req) == ValidationErrors(req.route, req.body) = <<>>
GatewayRegistered(req) ==
  req.body.gateway.t = "string" /\ toLowerCase(req.body.gateway.v) \in DOMAIN adapters
AdapterReached == call # NoCall
Responded == http.res # Undefined

\* C25: on POST /process, /intent and /refund an adapter operation happens
\* only after the API key check, the body validation and the availability
\* check passed, in that order: no key gives 401 whatever the body, a key
\* with an invalid body gives 400, an unregistered gateway gives 400, none of
\* them reaches an adapter; once the adapter is reached the status is 200 when
\* its result has success = true and 400 otherwise.
C25_StagesInOrder ==
  PaymentAnswered =>
    /\ ~HasApiKey(http.req)
         => Responded /\ http.res.status = 401 /\ ~AdapterReached /\ sent = <<>>
    /\ (HasApiKey(http.req) /\ ~BodyValid(http.req))
         => Responded /\ http.res.status = 400 /\ ~AdapterReached /\ sent = <<>>
    /\ (HasApiKey(http.req) /\ BodyValid(http.req) /\ ~GatewayRegistered(http.req))
         => Responded /\ http.res.status = 400 /\ ~AdapterReached /\ sent = <<>>
    /\ AdapterReached
         => HasApiKey(http.req) /\ BodyValid(http.req) /\ GatewayRegistered(http.req)
    /\ (AdapterReached /\ Responded)
         => http.res.status = (IF ret.kind = "returned" /\ ret.value.success
                               THEN 200 ELSE 400)

====
